---- MODULE Spec2Model ----
(***************************************************************************)
(* lode-core: the request dispatcher (LoadTestEngine::run), the            *)
(* per-request outcome tracker (RequestMetrics) and the metrics aggregator *)
(* (TestMetrics).                                                          *)
(*                                                                         *)
(* A request's elapsed time is a Duration as std keeps it, whole seconds   *)
(* and nanoseconds below one second; run durations and the answers of the  *)
(* response-time queries are whole nanoseconds.  Option<T> is a sequence   *)
(* of length 0 (None) or 1 (Some(x)).                                      *)
(***************************************************************************)
EXTENDS Bags, FiniteSets, Integers, Sequences, TLC

VARIABLES
    num_requests,       \* run(): num_requests
    concurrency,        \* run(): concurrency
    progress_bar,       \* run(): progress_bar, None or Some(position)
    run_pc,             \* position of the run() future
    next_index,         \* position of the (0..num_requests) iterator
    in_progress_queue,  \* BufferUnordered: request futures admitted, not finished
    pc,                 \* position of each request future
    result,             \* each request future's `result` local
    lock,               \* tokio Mutex around the TestMetrics: None or Some(holder)
    metrics,            \* the TestMetrics behind the mutex
    send_calls,         \* history: send_request calls per request index
    record_calls,       \* history: record_request calls per request index
    finalize_calls,     \* history: finalize calls
    tracker,            \* a RequestMetrics held by a caller: None or Some(rm)
    terminal_calls,     \* history: complete/record_error calls on tracker
    calls,              \* history: record_request calls on a bare TestMetrics
    config_args,        \* arguments of a LoadTestConfig::new call
    config_result,      \* what the call returned: None or Some(result)
    now,                \* the monotonic clock (Instant::now), nanoseconds
    start_time,         \* each request's RequestMetrics::start_time
    returned_at,        \* history: clock when each send_request returned
    runs,               \* run() calls in progress on one engine, by call
    callers,            \* invocations of main (CLI) and run_load_test (API)
    engine              \* AppState.engine, the Mutex: None or Some(holder)

vars == <<num_requests, concurrency, progress_bar, run_pc, next_index,
          in_progress_queue, pc, result, lock, metrics, send_calls,
          record_calls, finalize_calls, tracker, terminal_calls, calls,
          config_args, config_result, now, start_time, returned_at, runs,
          callers, engine>>

tracker_vars == <<tracker, terminal_calls, calls>>

config_vars == <<config_args, config_result>>

clock_vars == <<now, start_time, returned_at>>

api_vars == <<callers, engine>>

engine_vars == <<num_requests, concurrency, progress_bar, run_pc, next_index,
                 in_progress_queue, pc, result, lock, send_calls,
                 record_calls, finalize_calls>>

-----------------------------------------------------------------------------
(* Bounds *)

MaxRequests == 3    \* largest num_requests explored
MaxCalls == 3       \* record_request calls explored on a bare TestMetrics
MaxTerminal == 2    \* terminal calls explored on one tracker
MaxFinalize == 2    \* finalize calls explored on a bare TestMetrics
MaxSamples == 4     \* response times explored in one histogram
MaxTicks == 2       \* clock steps explored in a timed run
MaxTimedRequests == 2   \* largest num_requests explored in a timed run
MaxRuns == 2        \* run() calls explored on one engine
MaxRunRequests == 2 \* largest num_requests of one of several run() calls

-----------------------------------------------------------------------------
(* Values *)

None == <<>>
Some(x) == <<x>>
IsSome(o) == Len(o) = 1
IsNone(o) == Len(o) = 0
Unwrap(o) == o[1]

\* Status codes an Executor answers with.
StatusCodes == {200, 429, 599}

\* reqwest::Error values: a kind and the status the error carries, if any.
TimeoutError == [kind |-> "timeout", status |-> None]
ConnectError == [kind |-> "connect", status |-> None]
StatusError(code) == [kind |-> "status", status |-> Some(code)]
Errors == {TimeoutError, StatusError(503)}

\* What Executor::send_request returns: Ok(response) or Err(error); one
\* result of each kind (success status, failure status, transport error)
OkResponse(code) == [ok |-> TRUE, status |-> code]
ErrResponse(e) == [ok |-> FALSE, error |-> e]
ExecutorResults ==
    {OkResponse(200), OkResponse(404), ErrResponse(TimeoutError)}

\* Instant::elapsed() readings
ElapsedNs == {500, 3000}

\* Instant::elapsed() readings over the histogram's resolution steps: below
\* 1 us, exact (3 us), 2 us wide (2049, 2050 us) and 4 us wide (4100 us)
SampleElapsedNs == {500, 3000, 2049000, 2050000, 4100000}

\* Wall-clock durations of a whole run
RunDurationsNs == {0, 2000000000}

\* Durations handed to finalize by a direct caller: zero and 0.75 s
FinalizeDurationsNs == {0, 750000000}

NanosPerSec == 1000000000
NanosPerMicro == 1000
MicrosPerSec == 1000000

\* std::time::Duration { secs, nanos }
Duration(secs, nanos) == [secs |-> secs, nanos |-> nanos]
from_nanos(ns) == Duration(ns \div NanosPerSec, ns % NanosPerSec)
from_secs(secs) == Duration(secs, 0)

\* Elapsed readings a caller's tracker can carry: the short ones and one
\* of a request that took 70 s
TrackerElapsed == {from_nanos(ns) : ns \in ElapsedNs} \cup {from_secs(70)}

-----------------------------------------------------------------------------
(* Text *)

Digit(d) ==
    CASE d = 0 -> "0" [] d = 1 -> "1" [] d = 2 -> "2" [] d = 3 -> "3"
      [] d = 4 -> "4" [] d = 5 -> "5" [] d = 6 -> "6" [] d = 7 -> "7"
      [] d = 8 -> "8" [] d = 9 -> "9"

RECURSIVE U16ToString(_)
U16ToString(n) ==
    IF n < 10 THEN Digit(n) ELSE U16ToString(n \div 10) \o Digit(n % 10)

\* Variant: failures are labelled by status class ("HTTP 4xx").
HttpLabel_Class(code) == "HTTP " \o U16ToString(code \div 100) \o "xx"

\* format!("HTTP {}", status.as_u16())
HttpLabel(code) == "HTTP " \o U16ToString(code)

UnknownError == "Unknown Error"

\* Variant: no reason phrase is found, the fallback text is always used.
canonical_reason_Unknown(code) == None

\* StatusCode::canonical_reason
canonical_reason(code) ==
    CASE code = 200 -> Some("OK")
      [] code = 404 -> Some("Not Found")
      [] code = 429 -> Some("Too Many Requests")
      [] code = 500 -> Some("Internal Server Error")
      [] code = 503 -> Some("Service Unavailable")
      [] OTHER -> None

\* StatusCode's Display: "{code} {reason or <unknown status code>}"
StatusToString(code) ==
    U16ToString(code) \o " " \o
        (IF IsSome(canonical_reason(code)) THEN Unwrap(canonical_reason(code))
         ELSE "<unknown status code>")

\* reqwest::Error's Display
ErrorToString(e) ==
    CASE e.kind = "timeout" -> "error sending request: operation timed out"
      [] e.kind = "connect" -> "error sending request: connection refused"
      [] e.kind = "status" ->
            "HTTP status server error (" \o StatusToString(Unwrap(e.status)) \o ")"

\* StatusCode::is_success
is_success(code) == 200 <= code /\ code < 300

-----------------------------------------------------------------------------
(* RequestMetrics *)

RequestMetricsNew == [duration |-> None, status |-> None, error |-> None]

\* Variant: every terminal call stores a fresh elapsed reading.
complete_Overwrite(rm, status, elapsed) ==
    [rm EXCEPT !.duration = Some(elapsed), !.status = Some(status)]

\* `elapsed` is the reading of self.start_time.elapsed() at the call.
complete(rm, status, elapsed) ==
    [rm EXCEPT !.duration = IF IsNone(rm.duration) THEN Some(elapsed) ELSE @,
               !.status = Some(status)]

record_error(rm, error, elapsed) ==
    [rm EXCEPT !.duration = IF IsNone(rm.duration) THEN Some(elapsed) ELSE @,
               !.error = Some(error)]

-----------------------------------------------------------------------------
(* TestMetrics *)

HistLow == 1
HistHigh == 60000000
HistSigFig == 3

\* sub-buckets of one bucket at 3 significant digits
SubBucketCount == 2048

\* Histogram::new_with_bounds accepts low >= 1, high >= 2 * low, sigfig <= 5.
HistogramBoundsOk == HistLow >= 1 /\ HistHigh >= 2 * HistLow /\ HistSigFig <= 5

TestMetricsNew ==
    [total_requests |-> 0,
     successful_requests |-> 0,
     failed_requests |-> 0,
     total_duration |-> 0,
     requests_per_second |-> [num |-> 0, den |-> 1],
     response_times |-> EmptyBag,
     error_counts |-> << >>,
     error_messages |-> << >>]

\* Duration::as_micros
as_micros(d) == d.secs * MicrosPerSec + d.nanos \div NanosPerMicro

\* The counts array covers whole buckets: the first value without a slot is
\* the sub-bucket count doubled until it exceeds the highest trackable value.
RECURSIVE SmallestUntrackable(_)
SmallestUntrackable(v) ==
    IF v > HistHigh THEN v ELSE SmallestUntrackable(2 * v)

\* Histogram::record: a value without a slot is refused (auto-resize is
\* off) and the caller discards the refusal (`let _ =`).
HistogramRecord(h, v) ==
    IF v < SmallestUntrackable(SubBucketCount)
    THEN h (+) SetToBag({v}) ELSE h

\* Variant: the entry is overwritten with 1 instead of incremented.
EntryIncrement_Insert(map, key) ==
    [k \in DOMAIN map \cup {key} |-> IF k = key THEN 1 ELSE map[k]]

\* *map.entry(key).or_insert(0) += 1
EntryIncrement(map, key) ==
    IF key \in DOMAIN map THEN [map EXCEPT ![key] = @ + 1]
    ELSE [k \in DOMAIN map \cup {key} |-> IF k = key THEN 0 + 1 ELSE map[k]]

\* Variant: the newest message is put in front (insert(0, ..) for push).
RecordFailure_Prepend(m, label, message) ==
    [m EXCEPT !.failed_requests = @ + 1,
              !.error_counts = EntryIncrement(@, label),
              !.error_messages = <<message>> \o @]

\* Variant: every failure is filed under the label of the first failure
\* recorded.
RecordFailure_FirstLabel(m, label, message) ==
    [m EXCEPT !.failed_requests = @ + 1,
              !.error_counts =
                    EntryIncrement(@, IF DOMAIN @ = {} THEN label
                                      ELSE CHOOSE l \in DOMAIN @ : TRUE),
              !.error_messages = Append(@, message)]

RecordFailure(m, label, message) ==
    [m EXCEPT !.failed_requests = @ + 1,
              !.error_counts = EntryIncrement(@, label),
              !.error_messages = Append(@, message)]

\* Variant: a missing duration is recorded as the histogram's lowest value
\* (unwrap_or on the Option).
RecordDuration_Default(m, rm) ==
    IF IsNone(rm.duration)
    THEN [m EXCEPT !.response_times = HistogramRecord(@, HistLow)]
    ELSE IF as_micros(Unwrap(rm.duration)) >= 1
    THEN [m EXCEPT !.response_times =
                        HistogramRecord(@, as_micros(Unwrap(rm.duration)))]
    ELSE m

RecordDuration(m, rm) ==
    IF IsSome(rm.duration) /\ as_micros(Unwrap(rm.duration)) >= 1
    THEN [m EXCEPT !.response_times =
                        HistogramRecord(@, as_micros(Unwrap(rm.duration)))]
    ELSE m

\* Variant: a transport error without a status is filed as a request timeout.
Classify_TimeoutAs408(m, rm) ==
    CASE IsSome(rm.status) /\ IsNone(rm.error) ->
            IF is_success(Unwrap(rm.status))
            THEN [m EXCEPT !.successful_requests = @ + 1]
            ELSE RecordFailure(m, HttpLabel(Unwrap(rm.status)),
                    IF IsSome(canonical_reason(Unwrap(rm.status)))
                    THEN Unwrap(canonical_reason(Unwrap(rm.status)))
                    ELSE StatusToString(Unwrap(rm.status)))
      [] IsNone(rm.status) /\ IsSome(rm.error) ->
            RecordFailure(m,
                IF IsSome(Unwrap(rm.error).status)
                THEN HttpLabel(Unwrap(Unwrap(rm.error).status))
                ELSE HttpLabel(408),
                ErrorToString(Unwrap(rm.error)))
      [] IsNone(rm.status) /\ IsNone(rm.error) ->
            RecordFailure(m, UnknownError, UnknownError)
      [] IsSome(rm.status) /\ IsSome(rm.error) ->
            RecordFailure(m, UnknownError, UnknownError)

\* Variant: an outcome exposing both a status and an error is not classified.
Classify_SkipBoth(m, rm) ==
    CASE IsSome(rm.status) /\ IsNone(rm.error) ->
            IF is_success(Unwrap(rm.status))
            THEN [m EXCEPT !.successful_requests = @ + 1]
            ELSE RecordFailure(m, HttpLabel(Unwrap(rm.status)),
                    IF IsSome(canonical_reason(Unwrap(rm.status)))
                    THEN Unwrap(canonical_reason(Unwrap(rm.status)))
                    ELSE StatusToString(Unwrap(rm.status)))
      [] IsNone(rm.status) /\ IsSome(rm.error) ->
            RecordFailure(m,
                IF IsSome(Unwrap(rm.error).status)
                THEN HttpLabel(Unwrap(Unwrap(rm.error).status))
                ELSE UnknownError,
                ErrorToString(Unwrap(rm.error)))
      [] IsNone(rm.status) /\ IsNone(rm.error) ->
            RecordFailure(m, UnknownError, UnknownError)
      [] IsSome(rm.status) /\ IsSome(rm.error) -> m

\* Variant: the reason phrase is pushed for every status, 2xx included.
Classify_ReasonAlways(m, rm) ==
    CASE IsSome(rm.status) /\ IsNone(rm.error) ->
            IF is_success(Unwrap(rm.status))
            THEN [m EXCEPT !.successful_requests = @ + 1,
                          !.error_messages = Append(@, "OK")]
            ELSE RecordFailure(m, HttpLabel(Unwrap(rm.status)),
                    IF IsSome(canonical_reason(Unwrap(rm.status)))
                    THEN Unwrap(canonical_reason(Unwrap(rm.status)))
                    ELSE StatusToString(Unwrap(rm.status)))
      [] IsNone(rm.status) /\ IsSome(rm.error) ->
            RecordFailure(m,
                IF IsSome(Unwrap(rm.error).status)
                THEN HttpLabel(Unwrap(Unwrap(rm.error).status))
                ELSE UnknownError,
                ErrorToString(Unwrap(rm.error)))
      [] IsNone(rm.status) /\ IsNone(rm.error) ->
            RecordFailure(m, UnknownError, UnknownError)
      [] IsSome(rm.status) /\ IsSome(rm.error) ->
            RecordFailure(m, UnknownError, UnknownError)

Classify(m, rm) ==
    CASE IsSome(rm.status) /\ IsNone(rm.error) ->
            IF is_success(Unwrap(rm.status))
            THEN [m EXCEPT !.successful_requests = @ + 1]
            ELSE RecordFailure(m, HttpLabel(Unwrap(rm.status)),
                    IF IsSome(canonical_reason(Unwrap(rm.status)))
                    THEN Unwrap(canonical_reason(Unwrap(rm.status)))
                    ELSE StatusToString(Unwrap(rm.status)))
      [] IsNone(rm.status) /\ IsSome(rm.error) ->
            RecordFailure(m,
                IF IsSome(Unwrap(rm.error).status)
                THEN HttpLabel(Unwrap(Unwrap(rm.error).status))
                ELSE UnknownError,
                ErrorToString(Unwrap(rm.error)))
      [] IsNone(rm.status) /\ IsNone(rm.error) ->
            RecordFailure(m, UnknownError, UnknownError)
      [] IsSome(rm.status) /\ IsSome(rm.error) ->
            RecordFailure(m, UnknownError, UnknownError)

\* The periodic progress log (every log_batch_size-th call) only writes to the
\* log and to last_batch_log, which nothing else reads.
record_request(m, rm) ==
    Classify(RecordDuration([m EXCEPT !.total_requests = @ + 1], rm), rm)

RECURSIVE GCD(_, _)
GCD(a, b) == IF b = 0 THEN a ELSE GCD(b, a % b)

\* Variant: the duration is taken in milliseconds (as_millis for as_secs_f64).
PerSecond_Millis(total, ns) ==
    LET ms == ns \div 1000000
        h == GCD(total, ms)
    IN  [num |-> total \div h, den |-> ms \div h]

\* total / duration.as_secs_f64(), kept as an exact fraction in lowest terms
PerSecond(total, ns) ==
    LET g == GCD(NanosPerSec, ns)
        n == total * (NanosPerSec \div g)
        d == ns \div g
        h == GCD(n, d)
    IN  [num |-> n \div h, den |-> d \div h]

\* Variant: the duration is taken in whole seconds (as_secs for as_secs_f64).
finalize_WholeSecs(m, duration) ==
    [m EXCEPT !.total_duration = duration,
              !.requests_per_second =
                    IF duration \div NanosPerSec > 0
                    THEN PerSecond(m.total_requests,
                                   (duration \div NanosPerSec) * NanosPerSec)
                    ELSE [num |-> 0, den |-> 1]]

\* Variant: the error distribution is logged by draining error_counts.
finalize_DrainErrors(m, duration) ==
    [m EXCEPT !.total_duration = duration,
              !.requests_per_second =
                    IF duration > 0 THEN PerSecond(m.total_requests, duration)
                    ELSE [num |-> 0, den |-> 1],
              !.error_counts = << >>]

\* Variant: the histogram is reset once the response times are logged.
finalize_ResetSamples(m, duration) ==
    [m EXCEPT !.total_duration = duration,
              !.requests_per_second =
                    IF duration > 0 THEN PerSecond(m.total_requests, duration)
                    ELSE [num |-> 0, den |-> 1],
              !.response_times = EmptyBag]

finalize(m, duration) ==
    [m EXCEPT !.total_duration = duration,
              !.requests_per_second =
                    IF duration > 0 THEN PerSecond(m.total_requests, duration)
                    ELSE [num |-> 0, den |-> 1]]

\* what finalize returns: Ok(()) on its one return path, whatever was
\* recorded; the rates it logs are f64 quotients, NaN when nothing was
FinalizeReturn(m, duration) == [ok |-> TRUE]

-----------------------------------------------------------------------------
(* Response-time queries.  response_times holds the recorded values; the   *)
(* hdrhistogram crate answers queries at the resolution of the value's     *)
(* bucket: 3 significant digits give 2048 unit-wide sub-buckets, and the   *)
(* width doubles with every doubling of the value beyond that.             *)

\* Histogram::size_of_equivalent_range
RECURSIVE EquivalentRange(_)
EquivalentRange(v) ==
    IF v < SubBucketCount THEN 1 ELSE 2 * EquivalentRange(v \div 2)

\* Histogram::lowest_equivalent, highest_equivalent, median_equivalent
lowest_equivalent(v) == (v \div EquivalentRange(v)) * EquivalentRange(v)
highest_equivalent(v) == lowest_equivalent(v) + EquivalentRange(v) - 1
median_equivalent(v) == lowest_equivalent(v) + (EquivalentRange(v) \div 2)

SetMin(S) == CHOOSE x \in S : \A y \in S : x <= y
SetMax(S) == CHOOSE x \in S : \A y \in S : y <= x

\* Histogram::len
HistLen(h) == BagCardinality(h)

\* Histogram::min: 0 for an empty histogram, else the lowest value equivalent
\* to the smallest recorded one (0 itself is never recorded here)
HistMin(h) ==
    IF HistLen(h) = 0 THEN 0 ELSE lowest_equivalent(SetMin(BagToSet(h)))

\* Variant: the maximum is answered with the lowest value of its bucket.
HistMax_Lowest(h) ==
    IF HistLen(h) = 0 THEN 0 ELSE lowest_equivalent(SetMax(BagToSet(h)))

\* Histogram::max
HistMax(h) ==
    IF HistLen(h) = 0 THEN 0 ELSE highest_equivalent(SetMax(BagToSet(h)))

RECURSIVE WeightedSum(_, _)
WeightedSum(h, S) ==
    IF S = {} THEN 0
    ELSE LET v == CHOOSE x \in S : TRUE
         IN  median_equivalent(v) * h[v] + WeightedSum(h, S \ {v})

\* Histogram::mean followed by `as u64`: the count-weighted mean of the
\* buckets' median values, truncated
HistMeanTruncated(h) ==
    IF HistLen(h) = 0 THEN 0
    ELSE WeightedSum(h, BagToSet(h)) \div HistLen(h)

\* number of recorded values in buckets up to the one of v
RECURSIVE CountOf(_, _)
CountOf(h, S) ==
    IF S = {} THEN 0
    ELSE LET v == CHOOSE x \in S : TRUE IN h[v] + CountOf(h, S \ {v})

CountUpTo(h, v) ==
    CountOf(h, {w \in BagToSet(h) : lowest_equivalent(w) <= lowest_equivalent(v)})

\* Histogram::value_at_percentile: the count to reach is
\* ceil(percentile / 100 * len), at least 1; the answer is the highest value
\* equivalent to the first bucket at which the running count reaches it.
\* `percent` is in hundredths of a percent (5000 is the 50th percentile).
value_at_percentile(h, percent) ==
    IF HistLen(h) = 0 THEN 0
    ELSE LET exact == (percent * HistLen(h) + 9999) \div 10000
             target == IF exact = 0 THEN 1 ELSE exact
             reached == {v \in BagToSet(h) : CountUpTo(h, v) >= target}
         IN  highest_equivalent(SetMin(reached))

\* Duration::from_micros
from_micros(us) == us * NanosPerMicro

\* Variant: an empty histogram answers with its lowest trackable value.
min_response_time_Floor(m) ==
    IF HistLen(m.response_times) = 0 THEN from_micros(HistLow)
    ELSE from_micros(HistMin(m.response_times))

min_response_time(m) ==
    IF HistLen(m.response_times) = 0 THEN 0
    ELSE from_micros(HistMin(m.response_times))

max_response_time(m) ==
    IF HistLen(m.response_times) = 0 THEN 0
    ELSE from_micros(HistMax(m.response_times))

mean_response_time(m) ==
    IF HistLen(m.response_times) = 0 THEN 0
    ELSE from_micros(HistMeanTruncated(m.response_times))

median_response_time(m) ==
    IF HistLen(m.response_times) = 0 THEN 0
    ELSE from_micros(value_at_percentile(m.response_times, 5000))

p95_response_time(m) ==
    IF HistLen(m.response_times) = 0 THEN 0
    ELSE from_micros(value_at_percentile(m.response_times, 9500))

\* Variant: the percentile is passed as a fraction (0.99 for 99.0).
p99_response_time_Fraction(m) ==
    IF HistLen(m.response_times) = 0 THEN 0
    ELSE from_micros(value_at_percentile(m.response_times, 99))

p99_response_time(m) ==
    IF HistLen(m.response_times) = 0 THEN 0
    ELSE from_micros(value_at_percentile(m.response_times, 9900))

\* Variant: the block is built whether or not an error was counted.
error_stats_Always(m) == Some(<<m.error_counts, m.error_messages>>)

\* TestMetrics::error_stats
error_stats(m) ==
    IF DOMAIN m.error_counts = {} THEN None
    ELSE Some(<<m.error_counts, m.error_messages>>)

\* Report::from_metrics: metrics.error_stats().map(|(counts, messages)| ..)
ReportErrorStats(m) ==
    IF IsSome(error_stats(m))
    THEN Some([error_counts |-> Unwrap(error_stats(m))[1],
               error_messages |-> Unwrap(error_stats(m))[2]])
    ELSE None

-----------------------------------------------------------------------------
(* LoadTestEngine::run *)

Indices == 0 .. (num_requests - 1)

InFlight == {i \in Indices : pc[i] \in {"sending", "returned", "locked",
                                         "recorded", "notified"}}

Init ==
    /\ num_requests \in 1 .. MaxRequests
    /\ concurrency \in 1 .. num_requests
    /\ progress_bar \in {None, Some(0)}
    /\ run_pc = "start"
    /\ next_index = 0
    /\ in_progress_queue = {}
    /\ pc = [i \in Indices |-> "pending"]
    /\ result = [i \in Indices |-> None]
    /\ lock = None
    /\ metrics = TestMetricsNew
    /\ send_calls = [i \in Indices |-> 0]
    /\ record_calls = [i \in Indices |-> 0]
    /\ finalize_calls = 0
    /\ tracker = None
    /\ terminal_calls = 0
    /\ calls = 0
    /\ config_args = None
    /\ config_result = None
    /\ now = 0
    /\ start_time = [i \in Indices |-> 0]
    /\ returned_at = [i \in Indices |-> 0]
    /\ runs = << >>
    /\ callers = << >>
    /\ engine = None

\* Arc::new(Mutex::new(TestMetrics::new()?)): the run fails before the stream
\* is built when the aggregator cannot be constructed.
RunStart ==
    /\ run_pc = "start"
    /\ metrics' = TestMetricsNew
    /\ run_pc' = IF HistogramBoundsOk THEN "streaming" ELSE "failed"
    /\ UNCHANGED <<num_requests, concurrency, progress_bar, next_index,
                   in_progress_queue, pc, result, lock, send_calls,
                   record_calls, finalize_calls, tracker_vars, config_vars,
                   clock_vars, runs, api_vars>>

\* Variant: futures are pushed without comparing the queue length with `max`.
Admit_NoCeiling ==
    /\ run_pc = "streaming"
    /\ next_index < num_requests
    /\ in_progress_queue' = in_progress_queue \cup {next_index}
    /\ pc' = [pc EXCEPT ![next_index] = "created"]
    /\ next_index' = next_index + 1
    /\ UNCHANGED <<num_requests, concurrency, progress_bar, run_pc, result,
                   lock, metrics, send_calls, record_calls, finalize_calls,
                   tracker_vars, config_vars,
                   clock_vars, runs, api_vars>>

\* Variant: lock-step batches, a new batch of `max` futures is begun only once
\* the queue has drained.
Admit_Batched ==
    /\ run_pc = "streaming"
    /\ next_index < num_requests
    /\ Cardinality(in_progress_queue) < concurrency
    /\ (next_index % concurrency = 0) => (in_progress_queue = {})
    /\ in_progress_queue' = in_progress_queue \cup {next_index}
    /\ pc' = [pc EXCEPT ![next_index] = "created"]
    /\ next_index' = next_index + 1
    /\ UNCHANGED <<num_requests, concurrency, progress_bar, run_pc, result,
                   lock, metrics, send_calls, record_calls, finalize_calls,
                   tracker_vars, config_vars,
                   clock_vars, runs, api_vars>>

\* BufferUnordered::poll_next: while the queue holds fewer than `max` futures,
\* take the next one from the iterator and push it.
Admit ==
    /\ run_pc = "streaming"
    /\ next_index < num_requests
    /\ Cardinality(in_progress_queue) < concurrency
    /\ in_progress_queue' = in_progress_queue \cup {next_index}
    /\ pc' = [pc EXCEPT ![next_index] = "created"]
    /\ next_index' = next_index + 1
    /\ UNCHANGED <<num_requests, concurrency, progress_bar, run_pc, result,
                   lock, metrics, send_calls, record_calls, finalize_calls,
                   tracker_vars, config_vars,
                   clock_vars, runs, api_vars>>

\* Variant: the guard is taken before send_request is awaited, so the mutex
\* is held across the Executor call.
TaskStart_UnderLock(i) ==
    /\ run_pc = "streaming"
    /\ i \in in_progress_queue
    /\ pc[i] = "created"
    /\ lock = None
    /\ lock' = Some(i)
    /\ pc' = [pc EXCEPT ![i] = "sending"]
    /\ start_time' = [start_time EXCEPT ![i] = now]
    /\ send_calls' = [send_calls EXCEPT ![i] = @ + 1]
    /\ UNCHANGED <<num_requests, concurrency, progress_bar, run_pc,
                   next_index, in_progress_queue, result, metrics,
                   record_calls, finalize_calls, tracker_vars, config_vars,
                   now, returned_at, runs, api_vars>>

\* First poll of a request future: RequestMetrics::new(), then send_request
\* is called and awaited.
TaskStart(i) ==
    /\ run_pc = "streaming"
    /\ i \in in_progress_queue
    /\ pc[i] = "created"
    /\ pc' = [pc EXCEPT ![i] = "sending"]
    /\ start_time' = [start_time EXCEPT ![i] = now]
    /\ send_calls' = [send_calls EXCEPT ![i] = @ + 1]
    /\ UNCHANGED <<num_requests, concurrency, progress_bar, run_pc,
                   next_index, in_progress_queue, result, lock, metrics,
                   record_calls, finalize_calls, tracker_vars, config_vars,
                   now, returned_at, runs, api_vars>>

\* Variant: a transport error is propagated out of run (`?` on the result).
SendReturn_Abort(i, r) ==
    /\ run_pc = "streaming"
    /\ i \in in_progress_queue
    /\ pc[i] = "sending"
    /\ pc' = [pc EXCEPT ![i] = "returned"]
    /\ result' = [result EXCEPT ![i] = Some(r)]
    /\ run_pc' = IF r.ok THEN run_pc ELSE "failed"
    /\ returned_at' = [returned_at EXCEPT ![i] = now]
    /\ UNCHANGED <<num_requests, concurrency, progress_bar,
                   next_index, in_progress_queue, lock, metrics, send_calls,
                   record_calls, finalize_calls, tracker_vars, config_vars,
                   now, start_time, runs, api_vars>>

\* The Executor answers: `result` is bound.
SendReturn(i, r) ==
    /\ run_pc = "streaming"
    /\ i \in in_progress_queue
    /\ pc[i] = "sending"
    /\ pc' = [pc EXCEPT ![i] = "returned"]
    /\ result' = [result EXCEPT ![i] = Some(r)]
    /\ returned_at' = [returned_at EXCEPT ![i] = now]
    /\ UNCHANGED <<num_requests, concurrency, progress_bar, run_pc,
                   next_index, in_progress_queue, lock, metrics, send_calls,
                   record_calls, finalize_calls, tracker_vars, config_vars,
                   now, start_time, runs, api_vars>>

\* Variant: the aggregator is entered without waiting for the mutex.
LockAcquire_NoWait(i) ==
    /\ run_pc = "streaming"
    /\ i \in in_progress_queue
    /\ pc[i] = "returned"
    /\ lock' = Some(i)
    /\ pc' = [pc EXCEPT ![i] = "locked"]
    /\ UNCHANGED <<num_requests, concurrency, progress_bar, run_pc,
                   next_index, in_progress_queue, result, metrics, send_calls,
                   record_calls, finalize_calls, tracker_vars, config_vars,
                   clock_vars, runs, api_vars>>

\* metrics.lock().await
LockAcquire(i) ==
    /\ run_pc = "streaming"
    /\ i \in in_progress_queue
    /\ pc[i] = "returned"
    /\ lock = None
    /\ lock' = Some(i)
    /\ pc' = [pc EXCEPT ![i] = "locked"]
    /\ UNCHANGED <<num_requests, concurrency, progress_bar, run_pc,
                   next_index, in_progress_queue, result, metrics, send_calls,
                   record_calls, finalize_calls, tracker_vars, config_vars,
                   clock_vars, runs, api_vars>>

\* match result { Ok => complete(status), Err => record_error(error) }
Outcome(r, elapsed) ==
    IF r.ok THEN complete(RequestMetricsNew, r.status, elapsed)
    ELSE record_error(RequestMetricsNew, r.error, elapsed)

\* Variant: only Ok results are recorded (`if let Ok(response) = result`).
TaskRecord_OkOnly(i, elapsed) ==
    /\ run_pc = "streaming"
    /\ i \in in_progress_queue
    /\ pc[i] = "locked"
    /\ metrics' = IF Unwrap(result[i]).ok
                  THEN record_request(metrics, Outcome(Unwrap(result[i]), elapsed))
                  ELSE metrics
    /\ record_calls' = [record_calls EXCEPT ![i] =
                            IF Unwrap(result[i]).ok THEN @ + 1 ELSE @]
    /\ pc' = [pc EXCEPT ![i] = "recorded"]
    /\ UNCHANGED <<num_requests, concurrency, progress_bar, run_pc,
                   next_index, in_progress_queue, result, lock, send_calls,
                   finalize_calls, tracker_vars, config_vars,
                   clock_vars, runs, api_vars>>

TaskRecord(i, elapsed) ==
    /\ run_pc = "streaming"
    /\ i \in in_progress_queue
    /\ pc[i] = "locked"
    /\ metrics' = record_request(metrics, Outcome(Unwrap(result[i]), elapsed))
    /\ record_calls' = [record_calls EXCEPT ![i] = @ + 1]
    /\ pc' = [pc EXCEPT ![i] = "recorded"]
    /\ UNCHANGED <<num_requests, concurrency, progress_bar, run_pc,
                   next_index, in_progress_queue, result, lock, send_calls,
                   finalize_calls, tracker_vars, config_vars,
                   clock_vars, runs, api_vars>>

\* Variant: the progress bar advances for successful responses only.
TaskProgress_OkOnly(i) ==
    /\ run_pc = "streaming"
    /\ i \in in_progress_queue
    /\ pc[i] = "recorded"
    /\ progress_bar' = IF IsSome(progress_bar) /\ Unwrap(result[i]).ok
                       THEN Some(Unwrap(progress_bar) + 1) ELSE progress_bar
    /\ pc' = [pc EXCEPT ![i] = "notified"]
    /\ UNCHANGED <<num_requests, concurrency, run_pc, next_index,
                   in_progress_queue, result, lock, metrics, send_calls,
                   record_calls, finalize_calls, tracker_vars, config_vars,
                   clock_vars, runs, api_vars>>

\* if let Some(pb) = progress_bar { pb.inc(1) }
TaskProgress(i) ==
    /\ run_pc = "streaming"
    /\ i \in in_progress_queue
    /\ pc[i] = "recorded"
    /\ progress_bar' = IF IsSome(progress_bar)
                       THEN Some(Unwrap(progress_bar) + 1) ELSE progress_bar
    /\ pc' = [pc EXCEPT ![i] = "notified"]
    /\ UNCHANGED <<num_requests, concurrency, run_pc, next_index,
                   in_progress_queue, result, lock, metrics, send_calls,
                   record_calls, finalize_calls, tracker_vars, config_vars,
                   clock_vars, runs, api_vars>>

\* Variant: a request whose result is Err is submitted again.
TaskFinish_Retry(i) ==
    /\ run_pc = "streaming"
    /\ i \in in_progress_queue
    /\ pc[i] = "notified"
    /\ lock' = None
    /\ IF Unwrap(result[i]).ok \/ send_calls[i] >= 2
       THEN /\ pc' = [pc EXCEPT ![i] = "done"]
            /\ in_progress_queue' = in_progress_queue \ {i}
       ELSE /\ pc' = [pc EXCEPT ![i] = "created"]
            /\ in_progress_queue' = in_progress_queue
    /\ UNCHANGED <<num_requests, concurrency, progress_bar, run_pc,
                   next_index, result, metrics, send_calls, record_calls,
                   finalize_calls, tracker_vars, config_vars,
                   clock_vars, runs, api_vars>>

\* End of the async block: the guard is dropped, the future is ready and
\* FuturesUnordered releases it.
TaskFinish(i) ==
    /\ run_pc = "streaming"
    /\ i \in in_progress_queue
    /\ pc[i] = "notified"
    /\ lock' = None
    /\ pc' = [pc EXCEPT ![i] = "done"]
    /\ in_progress_queue' = in_progress_queue \ {i}
    /\ UNCHANGED <<num_requests, concurrency, progress_bar, run_pc,
                   next_index, result, metrics, send_calls, record_calls,
                   finalize_calls, tracker_vars, config_vars,
                   clock_vars, runs, api_vars>>

\* Variant: the stream is taken to be finished when the iterator is exhausted.
StreamDone_Early ==
    /\ run_pc = "streaming"
    /\ next_index = num_requests
    /\ run_pc' = "finalizing"
    /\ UNCHANGED <<num_requests, concurrency, progress_bar, next_index,
                   in_progress_queue, pc, result, lock, metrics, send_calls,
                   record_calls, finalize_calls, tracker_vars, config_vars,
                   clock_vars, runs, api_vars>>

\* collect() resolves once the iterator is exhausted and the queue is empty.
StreamDone ==
    /\ run_pc = "streaming"
    /\ next_index = num_requests
    /\ in_progress_queue = {}
    /\ run_pc' = "finalizing"
    /\ UNCHANGED <<num_requests, concurrency, progress_bar, next_index,
                   in_progress_queue, pc, result, lock, metrics, send_calls,
                   record_calls, finalize_calls, tracker_vars, config_vars,
                   clock_vars, runs, api_vars>>

\* { let mut metrics = metrics.lock().await; metrics.finalize(duration).await?; }
\* Ok(metrics)
RunFinalize(duration) ==
    /\ run_pc = "finalizing"
    /\ lock = None
    /\ metrics' = finalize(metrics, duration)
    /\ finalize_calls' = finalize_calls + 1
    /\ run_pc' = "done"
    /\ UNCHANGED <<num_requests, concurrency, progress_bar, next_index,
                   in_progress_queue, pc, result, lock, send_calls,
                   record_calls, tracker_vars, config_vars,
                   clock_vars, runs, api_vars>>

Next ==
    \/ RunStart
    \/ Admit
    \/ \E i \in Indices : TaskStart(i)
    \/ \E i \in Indices, r \in ExecutorResults : SendReturn(i, r)
    \/ \E i \in Indices : LockAcquire(i)
    \/ \E i \in Indices, e \in ElapsedNs : TaskRecord(i, from_nanos(e))
    \/ \E i \in Indices : TaskProgress(i)
    \/ \E i \in Indices : TaskFinish(i)
    \/ StreamDone
    \/ \E d \in RunDurationsNs : RunFinalize(d)

Spec == Init /\ [][Next]_vars

-----------------------------------------------------------------------------
(* LoadTestEngine::run against the clock: elapsed times are what           *)
(* Instant::elapsed reads when the code reads it                           *)

\* one step of the clock
TickNs == 2 * NanosPerMicro

\* Time passes while a request is with the Executor or its task waits to be
\* polled or to get the mutex; the critical section itself takes no time.
Tick ==
    /\ run_pc = "streaming"
    /\ now < MaxTicks * TickNs
    /\ \E i \in Indices : pc[i] \in {"sending", "returned"}
    /\ \A i \in Indices : pc[i] \notin {"locked", "recorded", "notified"}
    /\ now' = now + TickNs
    /\ UNCHANGED <<engine_vars, metrics, tracker_vars, config_vars,
                   start_time, returned_at, runs, api_vars>>

TimedInit == Init /\ num_requests <= MaxTimedRequests

\* complete / record_error read request_metrics.start_time.elapsed() when
\* they are called, run reads start_time.elapsed() before finalize
TimedNext ==
    \/ Tick
    \/ RunStart
    \/ Admit
    \/ \E i \in Indices : TaskStart(i)
    \/ \E i \in Indices, r \in ExecutorResults : SendReturn(i, r)
    \/ \E i \in Indices : LockAcquire(i)
    \/ \E i \in Indices : TaskRecord(i, from_nanos(now - start_time[i]))
    \/ \E i \in Indices : TaskProgress(i)
    \/ \E i \in Indices : TaskFinish(i)
    \/ StreamDone
    \/ RunFinalize(now)

TimedSpec == TimedInit /\ [][TimedNext]_vars

-----------------------------------------------------------------------------
(* Several run() calls on one engine, in sequence or overlapping.  run     *)
(* takes &self, so nothing orders the calls; each call is followed at the  *)
(* grain of its record steps, which the mutex makes atomic.                *)

\* Variant: one aggregate kept in the engine and used by every call.
CapturedAggregate_Shared(r) == 1

\* The aggregate the tasks of call r record into: each task clones
\* metrics_for_stream, the Arc of the `metrics` local of its own call.
CapturedAggregate(r) == r

\* What the Executor answers in these runs
RunResults == {OkResponse(200), ErrResponse(TimeoutError)}

\* engine.run(.., num_requests = n, ..) is entered: a new aggregate
RunCall(n) ==
    /\ Len(runs) < MaxRuns
    /\ runs' = Append(runs, [n |-> n, recorded |-> 0, returned |-> FALSE,
                             metrics |-> TestMetricsNew])
    /\ UNCHANGED <<engine_vars, metrics, tracker_vars, config_vars,
                   clock_vars, api_vars>>

\* a request task of call r records its outcome
RunTaskRecord(r, res) ==
    /\ r \in DOMAIN runs
    /\ ~runs[r].returned
    /\ runs[r].recorded < runs[r].n
    /\ runs' = [runs EXCEPT
            ![CapturedAggregate(r)].metrics =
                record_request(@, Outcome(res, from_nanos(3 * NanosPerMicro))),
            ![r].recorded = @ + 1]
    /\ UNCHANGED <<engine_vars, metrics, tracker_vars, config_vars,
                   clock_vars, api_vars>>

\* the stream of call r is exhausted: finalize and return the aggregate
RunReturn(r, duration) ==
    /\ r \in DOMAIN runs
    /\ ~runs[r].returned
    /\ runs[r].recorded = runs[r].n
    /\ runs' = [runs EXCEPT
            ![CapturedAggregate(r)].metrics = finalize(@, duration),
            ![r].returned = TRUE]
    /\ UNCHANGED <<engine_vars, metrics, tracker_vars, config_vars,
                   clock_vars, api_vars>>

MultiRunNext ==
    \/ \E n \in 1 .. MaxRunRequests : RunCall(n)
    \/ \E r \in 1 .. MaxRuns, res \in RunResults : RunTaskRecord(r, res)
    \/ \E r \in 1 .. MaxRuns, d \in RunDurationsNs : RunReturn(r, d)

-----------------------------------------------------------------------------
(* LoadTestConfig::new.  The method argument is already an HttpMethod and  *)
(* takes no part in the validation.                                        *)

CharAt(str, i) == SubSeq(str, i, i)

Alpha ==
    {"a", "b", "c", "d", "e", "f", "g", "h", "i", "j", "k", "l", "m", "n",
     "o", "p", "q", "r", "s", "t", "u", "v", "w", "x", "y", "z"}
SchemeChars == Alpha \cup {"0", "1", "2", "3", "4", "5", "6", "7", "8", "9",
                           "+", "-", "."}
SpecialSchemes == {"http", "https", "ws", "wss", "ftp"}

\* position of the colon that ends the scheme, 0 when the text has no scheme
SchemeEnd(url) ==
    LET colons == {i \in 1 .. Len(url) : CharAt(url, i) = ":"}
        k == IF colons = {} THEN 0 ELSE SetMin(colons)
    IN  IF /\ k >= 2
           /\ CharAt(url, 1) \in Alpha
           /\ \A j \in 2 .. (k - 1) : CharAt(url, j) \in SchemeChars
        THEN k ELSE 0

\* the host of a special-scheme URL: what follows the slashes after the
\* scheme, up to the next delimiter
HostOf(url) ==
    LET k == SchemeEnd(url)
        rest == {i \in (k + 1) .. Len(url) : CharAt(url, i) \notin {"/", "\\"}}
        first == IF rest = {} THEN Len(url) + 1 ELSE SetMin(rest)
        stops == {i \in first .. Len(url) : CharAt(url, i) \in {"/", "?", "#"}}
        last == IF stops = {} THEN Len(url) ELSE SetMin(stops) - 1
    IN  SubSeq(url, first, last)

\* Url::parse without a base URL, for texts without port, credentials or
\* IP-literal hosts: a text without a scheme is a relative reference, and a
\* special scheme needs a host.
UrlParse(url) ==
    LET k == SchemeEnd(url)
    IN  IF k = 0 THEN [ok |-> FALSE, error |-> "RelativeUrlWithoutBase"]
        ELSE IF SubSeq(url, 1, k - 1) \in SpecialSchemes /\ HostOf(url) = ""
        THEN [ok |-> FALSE, error |-> "EmptyHost"]
        ELSE [ok |-> TRUE]

\* Duration::from_millis, Duration::as_secs
from_millis(ms) == Duration(ms \div 1000, (ms % 1000) * 1000000)
as_secs(d) == d.secs

ConfigErr(kind, message) == [ok |-> FALSE, kind |-> kind, message |-> message]

\* Variant: the two concurrency checks come before the request-count check.
LoadTestConfigNew_ConcurrencyFirst(a) ==
    IF ~UrlParse(a.url).ok
    THEN ConfigErr("InvalidUrl", UrlParse(a.url).error)
    ELSE IF a.concurrency = 0
    THEN ConfigErr("InvalidConcurrency", "Concurrency must be greater than 0")
    ELSE IF a.concurrency > a.requests
    THEN ConfigErr("InvalidConcurrency",
                   "Concurrency cannot be greater than the number of requests")
    ELSE IF a.requests = 0
    THEN ConfigErr("InvalidRequests",
                   "Number of requests must be greater than 0")
    ELSE IF as_secs(a.timeout) = 0
    THEN ConfigErr("InvalidTimeout", "Timeout must be greater than 0 seconds")
    ELSE [ok |-> TRUE, config |-> a]

LoadTestConfigNew(a) ==
    IF ~UrlParse(a.url).ok
    THEN ConfigErr("InvalidUrl", UrlParse(a.url).error)
    ELSE IF a.requests = 0
    THEN ConfigErr("InvalidRequests",
                   "Number of requests must be greater than 0")
    ELSE IF a.concurrency = 0
    THEN ConfigErr("InvalidConcurrency", "Concurrency must be greater than 0")
    ELSE IF a.concurrency > a.requests
    THEN ConfigErr("InvalidConcurrency",
                   "Concurrency cannot be greater than the number of requests")
    ELSE IF as_secs(a.timeout) = 0
    THEN ConfigErr("InvalidTimeout", "Timeout must be greater than 0 seconds")
    ELSE [ok |-> TRUE, config |-> a]

\* Arguments a caller passes: URLs with and without a scheme or host, counts
\* around their limits, and zero, sub-second and whole-second timeouts
UrlArgs == {"http://example.com", "invalid-url", "http://", "mailto:a"}
TimeoutArgs == {from_secs(0), from_millis(100), from_secs(5)}

ConfigInit ==
    /\ num_requests = 0
    /\ concurrency = 0
    /\ progress_bar = None
    /\ run_pc = "idle"
    /\ next_index = 0
    /\ in_progress_queue = {}
    /\ pc = << >>
    /\ result = << >>
    /\ lock = None
    /\ metrics = TestMetricsNew
    /\ send_calls = << >>
    /\ record_calls = << >>
    /\ finalize_calls = 0
    /\ tracker = None
    /\ terminal_calls = 0
    /\ calls = 0
    /\ \E url \in UrlArgs, requests \in 0 .. MaxRequests,
          conc \in 0 .. (MaxRequests + 1), timeout \in TimeoutArgs :
            config_args = Some([url |-> url, requests |-> requests,
                                concurrency |-> conc, timeout |-> timeout])
    /\ config_result = None
    /\ now = 0
    /\ start_time = << >>
    /\ returned_at = << >>
    /\ runs = << >>
    /\ callers = << >>
    /\ engine = None

\* let config = LoadTestConfig::new(url, method, requests, concurrency, timeout)
ConfigNew ==
    /\ IsSome(config_args)
    /\ config_result = None
    /\ config_result' = Some(LoadTestConfigNew(Unwrap(config_args)))
    /\ UNCHANGED <<config_args, clock_vars, runs, engine_vars, metrics,
                   tracker_vars, api_vars>>

ConfigNext == ConfigNew

ConfigSpec == ConfigInit /\ [][ConfigNext]_vars

-----------------------------------------------------------------------------
(* The two front ends: main of lode-cli and the run_load_test handler of   *)
(* lode-api.  Each invocation builds a LoadTestConfig and, when it has     *)
(* one, calls engine.run; the run is followed at the grain of the requests *)
(* it issues, of which buffer_unordered keeps at most `concurrency`        *)
(* outstanding.  API handlers share the one AppState; every CLI            *)
(* invocation is a process with an engine of its own.                      *)

MaxCallers == 2          \* invocations explored
MaxCallerRequests == 2   \* largest request count an invocation asks for

Lower == "abcdefghijklmnopqrstuvwxyz"
Upper == "ABCDEFGHIJKLMNOPQRSTUVWXYZ"
Digits == "0123456789"

CharsOf(str) == {CharAt(str, i) : i \in 1 .. Len(str)}

\* str::to_uppercase, on ASCII text
RECURSIVE to_uppercase(_)
to_uppercase(s) ==
    IF s = "" THEN ""
    ELSE LET c == CharAt(s, 1)
             k == {i \in 1 .. Len(Lower) : CharAt(Lower, i) = c}
         IN  (IF k = {} THEN c ELSE CharAt(Upper, CHOOSE i \in k : TRUE))
                \o to_uppercase(SubSeq(s, 2, Len(s)))

HttpMethods == {"GET", "POST", "PUT", "DELETE", "PATCH"}

\* HttpMethod::from_str
HttpMethodFromStr(s) ==
    IF to_uppercase(s) \in HttpMethods
    THEN [ok |-> TRUE, method |-> to_uppercase(s)]
    ELSE ConfigErr("InvalidMethod", s)

\* char::is_ascii_alphanumeric
is_ascii_alphanumeric(c) ==
    c \in CharsOf(Lower) \cup CharsOf(Upper) \cup CharsOf(Digits)

\* key.chars().all(|c| c.is_ascii_alphanumeric() || c == '-' || c == '_')
HeaderNameOk(key) ==
    \A c \in CharsOf(key) : is_ascii_alphanumeric(c) \/ c \in {"-", "_"}

\* Variant: header names are passed on unexamined.
RequestChecks_NoHeaderCheck(req) ==
    IF ~UrlParse(req.url).ok THEN Some("Invalid URL")
    ELSE IF ~HttpMethodFromStr(req.method).ok THEN Some("Invalid HTTP method")
    ELSE None

\* The checks at the head of run_load_test: the error of the 400 response,
\* None when all pass.  headers is the set of header names of the HashMap.
RequestChecks(req) ==
    IF ~UrlParse(req.url).ok THEN Some("Invalid URL")
    ELSE IF ~HttpMethodFromStr(req.method).ok THEN Some("Invalid HTTP method")
    ELSE IF IsSome(req.headers)
            /\ \E key \in Unwrap(req.headers) : ~HeaderNameOk(key)
    THEN Some("Invalid header name")
    ELSE None

\* Option::unwrap_or
unwrap_or(opt, default) == IF IsSome(opt) THEN Unwrap(opt) ELSE default

\* Variant: the struct is filled in from the request without LoadTestConfig::new.
FromLoadTestRequest_Unchecked(req) ==
    [ok |-> TRUE,
     config |-> [url |-> req.url, requests |-> req.requests,
                 concurrency |-> req.concurrency,
                 timeout |-> from_millis(unwrap_or(req.timeout_ms, 5000))]]

\* impl From<LoadTestRequest> for LoadTestConfig, before the expect: the
\* Result of LoadTestConfig::new
FromLoadTestRequest(req) ==
    LoadTestConfigNew([url |-> req.url, requests |-> req.requests,
                       concurrency |-> req.concurrency,
                       timeout |-> from_millis(unwrap_or(req.timeout_ms, 5000))])

\* h.split(':').collect().len()
SplitParts(h) == Cardinality({i \in 1 .. Len(h) : CharAt(h, i) = ":"}) + 1

\* main, from cli.method.parse()? to the headers: the config, or the error
\* main returns
MainConfig(cli) ==
    IF ~HttpMethodFromStr(cli.method).ok THEN HttpMethodFromStr(cli.method)
    ELSE LET r == LoadTestConfigNew([url |-> cli.url,
                                     requests |-> cli.requests,
                                     concurrency |-> cli.concurrency,
                                     timeout |-> from_secs(cli.timeout)])
         IN  IF ~r.ok THEN r
             ELSE IF IsSome(cli.headers)
                     /\ \E h \in Unwrap(cli.headers) : SplitParts(h) # 2
             THEN ConfigErr("InvalidHeader", "Invalid header format")
             ELSE r

\* Requests posted to /load-test: one that passes and ones that differ from
\* it in one or two fields
ApiBase ==
    [url |-> "http://example.com", method |-> "get",
     requests |-> MaxCallerRequests, concurrency |-> MaxCallerRequests,
     timeout_ms |-> None, headers |-> Some({"X-Id"})]

ApiRequests ==
    {ApiBase,
     [ApiBase EXCEPT !.concurrency = 1],
     [ApiBase EXCEPT !.timeout_ms = Some(100)],
     [ApiBase EXCEPT !.url = "invalid-url"],
     [ApiBase EXCEPT !.method = "INVALID"],
     [ApiBase EXCEPT !.headers = Some({"X-Id", "Invalid@Header"})],
     [ApiBase EXCEPT !.requests = 0],
     [ApiBase EXCEPT !.concurrency = 0],
     [ApiBase EXCEPT !.concurrency = MaxCallerRequests + 1],
     [ApiBase EXCEPT !.timeout_ms = Some(0)],
     [ApiBase EXCEPT !.url = "invalid-url", !.requests = 0],
     [ApiBase EXCEPT !.method = "INVALID", !.timeout_ms = Some(0)],
     [ApiBase EXCEPT !.headers = Some({"Invalid@Header"}), !.concurrency = 0]}

\* Command lines of lode-cli, likewise; timeout is in seconds
CliBase ==
    [url |-> "http://example.com", method |-> "GET",
     requests |-> MaxCallerRequests, concurrency |-> MaxCallerRequests,
     timeout |-> 30, headers |-> None]

CliArgs ==
    {CliBase,
     [CliBase EXCEPT !.headers = Some({"X-Id:1"})],
     [CliBase EXCEPT !.headers = Some({"NoColon"})],
     [CliBase EXCEPT !.url = "invalid-url"],
     [CliBase EXCEPT !.method = "INVALID", !.requests = 0],
     [CliBase EXCEPT !.requests = 0],
     [CliBase EXCEPT !.concurrency = 0],
     [CliBase EXCEPT !.concurrency = MaxCallerRequests + 1],
     [CliBase EXCEPT !.timeout = 0]}

FrontInit ==
    /\ num_requests = 0
    /\ concurrency = 0
    /\ progress_bar = None
    /\ run_pc = "idle"
    /\ next_index = 0
    /\ in_progress_queue = {}
    /\ pc = << >>
    /\ result = << >>
    /\ lock = None
    /\ metrics = TestMetricsNew
    /\ send_calls = << >>
    /\ record_calls = << >>
    /\ finalize_calls = 0
    /\ tracker = None
    /\ terminal_calls = 0
    /\ calls = 0
    /\ config_args = None
    /\ config_result = None
    /\ now = 0
    /\ start_time = << >>
    /\ returned_at = << >>
    /\ runs = << >>
    /\ callers = << >>
    /\ engine = None

FrontFrame ==
    UNCHANGED <<engine_vars, metrics, tracker_vars, config_vars, clock_vars,
                runs>>

\* engine.run(.., config.requests, config.concurrency, ..) is entered
EnterRun(config) ==
    Some([n |-> config.requests, c |-> config.concurrency,
          issued |-> 0, in_flight |-> 0, finished |-> 0])

Caller(path, request) ==
    [path |-> path, request |-> request, pc |-> "received",
     response |-> None, config |-> None, run |-> None]

\* main up to the await on engine.run: an Err is returned from main (exit
\* code 1), otherwise the engine is created and run is called.  A command
\* line is a process of its own that shares nothing; one is followed.
MainStart(cli) ==
    /\ Len(callers) < MaxCallers
    /\ \A k \in DOMAIN callers : callers[k].path # "cli"
    /\ LET r == MainConfig(cli)
       IN  callers' = Append(callers,
                IF r.ok
                THEN [Caller("cli", cli) EXCEPT
                            !.pc = "running", !.config = Some(r.config),
                            !.run = EnterRun(r.config)]
                ELSE [Caller("cli", cli) EXCEPT
                            !.pc = "exited", !.response = Some(1)])
    /\ UNCHANGED engine
    /\ FrontFrame

\* run_load_test up to its first await, for one POST /load-test: 400 Bad
\* Request at the first check that fails; then request.into(), whose expect
\* panics on Err, and the handler is gone without a response
HandlerStart(request) ==
    /\ Len(callers) < MaxCallers
    /\ LET r == FromLoadTestRequest(request)
       IN  callers' = Append(callers,
                IF IsSome(RequestChecks(request))
                THEN [Caller("api", request) EXCEPT
                            !.pc = "responded", !.response = Some(400)]
                ELSE IF r.ok
                THEN [Caller("api", request) EXCEPT
                            !.pc = "configured", !.config = Some(r.config)]
                ELSE [Caller("api", request) EXCEPT !.pc = "panicked"])
    /\ UNCHANGED engine
    /\ FrontFrame

\* Variant: every handler has an engine of its own, nothing to wait for.
HandlerLock_NoWait(h) ==
    /\ h \in DOMAIN callers
    /\ callers[h].pc = "configured"
    /\ engine' = Some(h)
    /\ callers' = [callers EXCEPT ![h] =
            [@ EXCEPT !.pc = "running",
                      !.run = EnterRun(Unwrap(callers[h].config))]]
    /\ FrontFrame

\* let engine = state.engine.lock().await; engine.run(..)
HandlerLock(h) ==
    /\ h \in DOMAIN callers
    /\ callers[h].pc = "configured"
    /\ engine = None
    /\ engine' = Some(h)
    /\ callers' = [callers EXCEPT ![h] =
            [@ EXCEPT !.pc = "running",
                      !.run = EnterRun(Unwrap(callers[h].config))]]
    /\ FrontFrame

\* the run pushes its next request future, which calls the Executor
CallerSend(h) ==
    /\ h \in DOMAIN callers
    /\ callers[h].pc = "running"
    /\ Unwrap(callers[h].run).issued < Unwrap(callers[h].run).n
    /\ Unwrap(callers[h].run).in_flight < Unwrap(callers[h].run).c
    /\ callers' = [callers EXCEPT ![h].run =
            Some([Unwrap(@) EXCEPT !.issued = @ + 1, !.in_flight = @ + 1])]
    /\ UNCHANGED engine
    /\ FrontFrame

\* a request future of the run finishes: Executor answer recorded
CallerSendDone(h) ==
    /\ h \in DOMAIN callers
    /\ callers[h].pc = "running"
    /\ Unwrap(callers[h].run).in_flight > 0
    /\ callers' = [callers EXCEPT ![h].run =
            Some([Unwrap(@) EXCEPT !.in_flight = @ - 1, !.finished = @ + 1])]
    /\ UNCHANGED engine
    /\ FrontFrame

\* the stream is exhausted and run returns Ok(metrics)
CallerRunReturn(h) ==
    /\ h \in DOMAIN callers
    /\ callers[h].pc = "running"
    /\ Unwrap(callers[h].run).finished = Unwrap(callers[h].run).n
    /\ callers' = [callers EXCEPT ![h].pc = "reporting"]
    /\ UNCHANGED engine
    /\ FrontFrame

\* Report::from_metrics, then the report is printed and main returns Ok (exit
\* code 0), or the handler answers 200 and its MutexGuard is dropped
CallerRespond(h) ==
    /\ h \in DOMAIN callers
    /\ callers[h].pc = "reporting"
    /\ callers' = [callers EXCEPT ![h] =
            IF @.path = "cli"
            THEN [@ EXCEPT !.pc = "exited", !.response = Some(0)]
            ELSE [@ EXCEPT !.pc = "responded", !.response = Some(200)]]
    /\ engine' = IF callers[h].path = "api" THEN None ELSE engine
    /\ FrontFrame

FrontNext ==
    \/ \E cli \in CliArgs : MainStart(cli)
    \/ \E request \in ApiRequests : HandlerStart(request)
    \/ \E h \in 1 .. MaxCallers : HandlerLock(h)
    \/ \E h \in 1 .. MaxCallers : CallerSend(h)
    \/ \E h \in 1 .. MaxCallers : CallerSendDone(h)
    \/ \E h \in 1 .. MaxCallers : CallerRunReturn(h)
    \/ \E h \in 1 .. MaxCallers : CallerRespond(h)

FrontSpec == FrontInit /\ [][FrontNext]_vars

-----------------------------------------------------------------------------
(* RequestMetrics and TestMetrics driven directly by a caller *)

MetricsInit ==
    /\ num_requests = 0
    /\ concurrency = 0
    /\ progress_bar = None
    /\ run_pc = "idle"
    /\ next_index = 0
    /\ in_progress_queue = {}
    /\ pc = << >>
    /\ result = << >>
    /\ lock = None
    /\ metrics = TestMetricsNew
    /\ send_calls = << >>
    /\ record_calls = << >>
    /\ finalize_calls = 0
    /\ tracker = None
    /\ terminal_calls = 0
    /\ calls = 0
    /\ config_args = None
    /\ config_result = None
    /\ now = 0
    /\ start_time = [i \in Indices |-> 0]
    /\ returned_at = [i \in Indices |-> 0]
    /\ runs = << >>
    /\ callers = << >>
    /\ engine = None

\* RequestMetrics::new()
TrackerNew ==
    /\ tracker = None
    /\ calls < MaxCalls
    /\ tracker' = Some(RequestMetricsNew)
    /\ terminal_calls' = 0
    /\ UNCHANGED <<config_vars, clock_vars, runs, engine_vars, metrics, calls,
                   api_vars>>

\* tracker = tracker.complete(status)
TrackerComplete(status, elapsed) ==
    /\ IsSome(tracker)
    /\ terminal_calls < MaxTerminal
    /\ tracker' = Some(complete(Unwrap(tracker), status, elapsed))
    /\ terminal_calls' = terminal_calls + 1
    /\ UNCHANGED <<config_vars, clock_vars, runs, engine_vars, metrics, calls,
                   api_vars>>

\* tracker = tracker.record_error(error)
TrackerRecordError(error, elapsed) ==
    /\ IsSome(tracker)
    /\ terminal_calls < MaxTerminal
    /\ tracker' = Some(record_error(Unwrap(tracker), error, elapsed))
    /\ terminal_calls' = terminal_calls + 1
    /\ UNCHANGED <<config_vars, clock_vars, runs, engine_vars, metrics, calls,
                   api_vars>>

\* metrics.record_request(tracker): the tracker is moved into the call.
MetricsRecord ==
    /\ IsSome(tracker)
    /\ calls < MaxCalls
    /\ metrics' = record_request(metrics, Unwrap(tracker))
    /\ calls' = calls + 1
    /\ tracker' = None
    /\ UNCHANGED <<config_vars, clock_vars, runs, engine_vars, terminal_calls,
                   api_vars>>

\* metrics.finalize(duration)
MetricsFinalize(duration) ==
    /\ finalize_calls < MaxFinalize
    /\ metrics' = finalize(metrics, duration)
    /\ finalize_calls' = finalize_calls + 1
    /\ UNCHANGED <<num_requests, concurrency, progress_bar, run_pc,
                   next_index, in_progress_queue, pc, result, lock,
                   send_calls, record_calls, tracker_vars, config_vars,
                   clock_vars, runs, api_vars>>

MetricsNext ==
    \/ TrackerNew
    \/ \E s \in StatusCodes, e \in TrackerElapsed : TrackerComplete(s, e)
    \/ \E err \in Errors, e \in TrackerElapsed : TrackerRecordError(err, e)
    \/ MetricsRecord
    \/ \E d \in FinalizeDurationsNs : MetricsFinalize(d)

MetricsSpec == MetricsInit /\ [][MetricsNext]_vars

\* no run() call has been made yet
MultiRunSpec == MetricsInit /\ [][MultiRunNext]_vars

-----------------------------------------------------------------------------
(* A TestMetrics fed with completed trackers over the histogram's range *)

\* metrics.record_request(RequestMetrics::new().complete(status)), the clock
\* reading `elapsed` at the complete call
RecordSample(status, elapsed) ==
    /\ calls < MaxSamples
    /\ metrics' = record_request(metrics,
                        complete(RequestMetricsNew, status, elapsed))
    /\ calls' = calls + 1
    /\ UNCHANGED <<config_vars, clock_vars, runs, engine_vars, tracker,
                   terminal_calls, api_vars>>

HistogramNext ==
    \E status \in {200, 404}, e \in SampleElapsedNs :
        RecordSample(status, from_nanos(e))

HistogramSpec == MetricsInit /\ [][HistogramNext]_vars

\* Fairness: the runtime keeps polling the run() future and every request
\* future that can make a step; an Executor call that can return does.
LiveSpec == Spec /\ WF_vars(Next)

-----------------------------------------------------------------------------
(* Properties of LoadTestEngine::run *)

Recorded == {i \in Indices : pc[i] \in {"recorded", "notified", "done"}}
InCriticalSection == {i \in Indices : pc[i] \in {"locked", "recorded", "notified"}}
NotStarted == {i \in Indices : pc[i] \in {"pending", "created"}}
Failures == {i \in Indices : IsSome(result[i]) /\ ~Unwrap(result[i]).ok}

RECURSIVE SumValues(_)
SumValues(f) ==
    IF DOMAIN f = {} THEN 0
    ELSE LET k == CHOOSE x \in DOMAIN f : TRUE
         IN  f[k] + SumValues([x \in DOMAIN f \ {k} |-> f[x]])

\* C1: at every instant of a run the number of requests whose send_request has
\* started and whose task has not finished is at most the concurrency ceiling.
C1_AtMostCInFlight == Cardinality(InFlight) <= concurrency

C1_Witness ==
    /\ concurrency >= 2
    /\ concurrency < num_requests
    /\ Cardinality(InFlight) = concurrency
    /\ next_index < num_requests

\* C2: when run returns, successful_requests + failed_requests =
\* total_requests = num_requests, whatever mix of successes and failures.
C2_CountsAddUpToN ==
    run_pc = "done" =>
        /\ metrics.total_requests = num_requests
        /\ metrics.successful_requests + metrics.failed_requests
                = metrics.total_requests

C2_Witness ==
    /\ run_pc = "done"
    /\ metrics.successful_requests >= 1
    /\ metrics.failed_requests >= 1
    /\ \E i \in Indices : ~Unwrap(result[i]).ok

\* C3: if every Executor call returns, the run eventually has recorded all
\* num_requests outcomes, finalized and returned Ok, however many requests
\* fail.
C3_RunCompletes ==
    <>(/\ run_pc = "done"
       /\ metrics.total_requests = num_requests
       /\ finalize_calls = 1)

C3_Witness ==
    /\ run_pc = "done"
    /\ num_requests >= 2
    /\ Failures = Indices
    /\ metrics.failed_requests = num_requests

\* C4: record_request runs under the aggregator mutex: at most one task is
\* between acquiring and releasing it, that task is the holder, and
\* total_requests is the number of tasks that have done their record step.
C4_RecordUnderMutex ==
    /\ Cardinality(InCriticalSection) <= 1
    /\ \A i \in Indices : (i \in InCriticalSection) <=> (lock = Some(i))
    /\ metrics.total_requests = Cardinality(Recorded)

C4_Witness ==
    /\ \E i, j \in Indices :
          /\ pc[i] = "recorded"
          /\ pc[j] = "returned"
    /\ metrics.total_requests >= 2

\* C5: finalize is called exactly once per run, after all num_requests
\* outcomes are recorded; no record_request follows it.
C5_FinalizeOnceAfterAll ==
    /\ [](/\ finalize_calls <= 1
          /\ (run_pc = "done") <=> (finalize_calls = 1)
          /\ finalize_calls >= 1 =>
                /\ metrics.total_requests = num_requests
                /\ \A i \in Indices : pc[i] = "done" /\ record_calls[i] = 1)
    /\ [][/\ finalize_calls >= 1 => record_calls' = record_calls
          /\ finalize_calls' # finalize_calls =>
                metrics.total_requests = num_requests]_vars

C5_Witness ==
    /\ finalize_calls = 1
    /\ num_requests >= 2
    /\ metrics.total_requests = num_requests

\* C6: every request index is sent to the Executor exactly once and recorded
\* exactly once, failed or not; the Executor is called num_requests times.
C6_ExactlyOnce ==
    /\ \A i \in Indices :
          /\ send_calls[i] <= 1
          /\ record_calls[i] <= send_calls[i]
          /\ (i \in Recorded) <=> (record_calls[i] = 1)
    /\ run_pc \in {"finalizing", "done"} =>
          /\ \A i \in Indices : send_calls[i] = 1 /\ record_calls[i] = 1
          /\ SumValues(send_calls) = num_requests

C6_Witness ==
    /\ run_pc = "done"
    /\ Failures # {}
    /\ \A i \in Indices : send_calls[i] = 1

\* C7: whenever fewer than `concurrency` requests are in flight and some
\* request has not been started, a request can be started at once: no
\* outstanding request has to finish first.
C7_SlidingWindow ==
    (/\ run_pc = "streaming"
     /\ Cardinality(InFlight) < concurrency
     /\ NotStarted # {})
        => (ENABLED Admit \/ \E i \in Indices : ENABLED TaskStart(i))

\* a later request is in flight although an earlier one of the first window
\* is still outstanding and another one has finished
C7_Witness ==
    /\ concurrency = 2
    /\ num_requests >= 3
    /\ pc[0] = "sending"
    /\ pc[1] = "done"
    /\ pc[2] = "sending"

ExpectedLabel(r) ==
    IF r.ok THEN HttpLabel(r.status)
    ELSE IF IsSome(r.error.status) THEN HttpLabel(Unwrap(r.error.status))
    ELSE UnknownError

IsSuccess(i) == Unwrap(result[i]).ok /\ is_success(Unwrap(result[i]).status)

\* C8: with a progress sink, it is advanced once per completed request and
\* only after the outcome is recorded: its position never exceeds
\* total_requests and is num_requests when run returns; with or without the
\* sink the counters are the ones the results determine.
C8_ProgressAfterRecord ==
    /\ IsSome(progress_bar) =>
          /\ Unwrap(progress_bar) <= metrics.total_requests
          /\ Unwrap(progress_bar)
                = Cardinality({i \in Indices : pc[i] \in {"notified", "done"}})
          /\ run_pc = "done" => Unwrap(progress_bar) = num_requests
    /\ metrics.successful_requests
            = Cardinality({i \in Recorded : IsSuccess(i)})
    /\ metrics.failed_requests
            = Cardinality({i \in Recorded : ~IsSuccess(i)})
    /\ \A l \in DOMAIN metrics.error_counts :
          metrics.error_counts[l]
            = Cardinality({i \in Recorded :
                    ~IsSuccess(i) /\ ExpectedLabel(Unwrap(result[i])) = l})

C8_Witness ==
    /\ IsSome(progress_bar)
    /\ run_pc = "done"
    /\ Unwrap(progress_bar) >= 2
    /\ Failures # {}
    /\ Failures # Indices

-----------------------------------------------------------------------------
(* Properties of TestMetrics *)

\* C9: after any sequence of record_request calls the values of error_counts
\* sum to failed_requests.
C9_ErrorCountsSumToFailed ==
    SumValues(metrics.error_counts) = metrics.failed_requests

C9_Witness ==
    /\ calls >= 3
    /\ Cardinality(DOMAIN metrics.error_counts) >= 2
    /\ \E l \in DOMAIN metrics.error_counts : metrics.error_counts[l] >= 2

\* C10: after any sequence of record_request calls total_requests is the
\* number of calls and successful_requests + failed_requests = total_requests.
C10_EveryOutcomeCounted ==
    /\ metrics.total_requests = calls
    /\ metrics.successful_requests + metrics.failed_requests
            = metrics.total_requests

\* successes and failures, the last outcome from a tracker completed twice
C10_Witness ==
    /\ calls >= 3
    /\ metrics.successful_requests >= 1
    /\ metrics.failed_requests >= 2
    /\ tracker = None
    /\ terminal_calls = 2
    /\ UnknownError \in DOMAIN metrics.error_counts

-----------------------------------------------------------------------------
(* Properties of RequestMetrics *)

\* C11: once a tracker holds an elapsed time, a later complete or
\* record_error on it, whatever the clock then reads, leaves it unchanged.
C11_DurationCapturedOnce ==
    [][(/\ IsSome(tracker)
        /\ IsSome(tracker')
        /\ IsSome(Unwrap(tracker).duration))
            => Unwrap(tracker').duration = Unwrap(tracker).duration]_vars

\* a tracker after complete and record_error, both orders included
C11_Witness ==
    /\ IsSome(tracker)
    /\ terminal_calls >= 2
    /\ IsSome(Unwrap(tracker).status)
    /\ IsSome(Unwrap(tracker).error)
    /\ IsSome(Unwrap(tracker).duration)

\* C12: a tracker that has made at least one terminal call exposes exactly
\* one of status() and error(), after any sequence of terminal calls.
C12_ExactlyOneOfStatusOrError ==
    (IsSome(tracker) /\ terminal_calls >= 1)
        => (IsSome(Unwrap(tracker).status) # IsSome(Unwrap(tracker).error))

-----------------------------------------------------------------------------
(* Properties of TestMetrics::record_request, step by step *)

\* the tracker handed to record_request in a MetricsRecord step
RecordedTracker == Unwrap(tracker)
IsRecordStep == IsSome(tracker) /\ calls' = calls + 1

StatusOnly(rm) == IsSome(rm.status) /\ IsNone(rm.error)
ErrorOnly(rm) == IsNone(rm.status) /\ IsSome(rm.error)
Degenerate(rm) == IsSome(rm.status) = IsSome(rm.error)

\* new is old with one more occurrence under label l and nothing else changed
BumpedAt(old, new, l) ==
    /\ DOMAIN new = DOMAIN old \cup {l}
    /\ \A k \in DOMAIN new :
          new[k] = (IF k \in DOMAIN old THEN old[k] ELSE 0)
                        + (IF k = l THEN 1 ELSE 0)

\* the labels and reason phrases, written out
LabelText(code) ==
    CASE code = 404 -> "HTTP 404" [] code = 429 -> "HTTP 429"
      [] code = 503 -> "HTTP 503" [] code = 599 -> "HTTP 599"

ReasonText(code) ==
    CASE code = 404 -> "Not Found" [] code = 429 -> "Too Many Requests"
      [] code = 503 -> "Service Unavailable"

HasPrefix(str, prefix) ==
    Len(str) >= Len(prefix) /\ SubSeq(str, 1, Len(prefix)) = prefix

\* C13: an outcome that is a status outside 2xx, or a transport failure
\* carrying a status, adds one to failed_requests, nothing to
\* successful_requests, and one to error_counts under "HTTP {code}" only.
C13_HttpFailureLabel ==
    [][\A code \in {429, 503, 599} :
        (/\ IsRecordStep
         /\ \/ /\ StatusOnly(RecordedTracker)
               /\ Unwrap(RecordedTracker.status) = code
            \/ /\ ErrorOnly(RecordedTracker)
               /\ Unwrap(RecordedTracker.error).status = Some(code))
        => /\ metrics'.failed_requests = metrics.failed_requests + 1
           /\ metrics'.successful_requests = metrics.successful_requests
           /\ BumpedAt(metrics.error_counts, metrics'.error_counts,
                       LabelText(code))]_vars

\* a status failure and a transport failure with a status have been recorded
C13_Witness ==
    /\ calls >= 2
    /\ "HTTP 503" \in DOMAIN metrics.error_counts
    /\ \E l \in {"HTTP 429", "HTTP 599"} :
            l \in DOMAIN metrics.error_counts

\* C14: a transport failure without a status is counted as failed under
\* "Unknown Error" and under no "HTTP ..." label; in a run whose requests all
\* time out, failed_requests is num_requests at the end and error_counts has
\* no key that starts with "HTTP ".
C14_TransportFailureUnknown ==
    /\ [][\A i \in Indices :
            (/\ pc[i] = "locked"
             /\ pc'[i] = "recorded"
             /\ result[i] = Some(ErrResponse(TimeoutError)))
            => /\ metrics'.failed_requests = metrics.failed_requests + 1
               /\ metrics'.successful_requests = metrics.successful_requests
               /\ BumpedAt(metrics.error_counts, metrics'.error_counts,
                           "Unknown Error")]_vars
    /\ []((\A i \in Recorded : result[i] = Some(ErrResponse(TimeoutError)))
            => /\ metrics.failed_requests = Cardinality(Recorded)
               /\ \A l \in DOMAIN metrics.error_counts : ~HasPrefix(l, "HTTP ")
               /\ run_pc = "done" => metrics.failed_requests = num_requests)

C14_Witness ==
    /\ run_pc = "done"
    /\ num_requests >= 2
    /\ \A i \in Indices : result[i] = Some(ErrResponse(TimeoutError))
    /\ DOMAIN metrics.error_counts = {"Unknown Error"}

\* C15: an outcome exposing neither a status nor an error, or both, counts as
\* one failed request: total_requests and failed_requests grow by one,
\* successful_requests stays, error_counts["Unknown Error"] grows by one and
\* one message is appended.
C15_DegenerateIsOneFailure ==
    [][(IsRecordStep /\ Degenerate(RecordedTracker))
        => /\ metrics'.total_requests = metrics.total_requests + 1
           /\ metrics'.failed_requests = metrics.failed_requests + 1
           /\ metrics'.successful_requests = metrics.successful_requests
           /\ BumpedAt(metrics.error_counts, metrics'.error_counts,
                       "Unknown Error")
           /\ Len(metrics'.error_messages) = Len(metrics.error_messages) + 1
           /\ SubSeq(metrics'.error_messages, 1, Len(metrics.error_messages))
                = metrics.error_messages]_vars

\* two degenerate outcomes recorded, the last one from a tracker that was
\* both completed and given an error
C15_Witness ==
    /\ calls = 2
    /\ tracker = None
    /\ terminal_calls = 2
    /\ metrics.failed_requests = 2
    /\ metrics.error_messages = <<"Unknown Error", "Unknown Error">>

\* C16: for a non-success status with a known reason phrase the message
\* appended to error_messages is that phrase.
C16_ReasonPhraseMessage ==
    [][\A code \in {429} :
        (/\ IsRecordStep
         /\ StatusOnly(RecordedTracker)
         /\ Unwrap(RecordedTracker.status) = code)
        => /\ metrics'.error_messages
                = Append(metrics.error_messages, ReasonText(code))
           /\ BumpedAt(metrics.error_counts, metrics'.error_counts,
                       LabelText(code))]_vars

\* every recorded request answered 429
C16_Witness ==
    /\ calls >= 3
    /\ metrics.failed_requests = calls
    /\ metrics.error_counts = [l \in {"HTTP 429"} |-> calls]
    /\ \A k \in 1 .. Len(metrics.error_messages) :
            metrics.error_messages[k] = "Too Many Requests"

-----------------------------------------------------------------------------
(* Properties of TestMetrics::finalize *)

IsFinalizeStep == finalize_calls' = finalize_calls + 1

QuarterSecNs == NanosPerSec \div 4

\* rps is the fraction total / (d seconds), d a whole number of quarter seconds
IsPerSecond(rps, total, d) ==
    /\ d % QuarterSecNs = 0
    /\ rps.den > 0
    /\ rps.num * (d \div QuarterSecNs) = 4 * total * rps.den

\* C17: finalize(d) sets total_duration to d and requests_per_second to
\* total_requests / d.seconds when d > 0, to 0 when d = 0; 10 outcomes
\* finalized with d = 2 s give 5.
C17_FinalizeSetsRate ==
    /\ finalize([TestMetricsNew EXCEPT !.total_requests = 10],
                2 * NanosPerSec).requests_per_second = [num |-> 5, den |-> 1]
    /\ [][IsFinalizeStep =>
            \E d \in FinalizeDurationsNs :
                /\ metrics'.total_duration = d
                /\ IF d > 0
                   THEN IsPerSecond(metrics'.requests_per_second,
                                    metrics.total_requests, d)
                   ELSE metrics'.requests_per_second.num = 0
                /\ metrics' = [metrics EXCEPT
                        !.total_duration = metrics'.total_duration,
                        !.requests_per_second = metrics'.requests_per_second]
         ]_vars

\* 3 outcomes finalized with 0.75 s: 4 per second
C17_Witness ==
    /\ finalize_calls >= 1
    /\ metrics.total_requests = 3
    /\ metrics.total_duration = 3 * QuarterSecNs
    /\ metrics.requests_per_second = [num |-> 4, den |-> 1]

\* C18 as stated: right after any finalize, requests_per_second = 0 exactly
\* when total_duration = 0, whatever the number of recorded outcomes.
C18_RateZeroIffDurationZero ==
    [][IsFinalizeStep =>
        ((metrics'.requests_per_second.num = 0)
            <=> (metrics'.total_duration = 0))]_vars

\* C18 amended: right after a finalize of an aggregate with at least one
\* recorded outcome, requests_per_second = 0 exactly when total_duration = 0;
\* with no recorded outcome requests_per_second = 0 for every duration.
C18_RateZeroIffDurationZeroOrEmpty ==
    [][IsFinalizeStep =>
        /\ metrics.total_requests >= 1 =>
                ((metrics'.requests_per_second.num = 0)
                    <=> (metrics'.total_duration = 0))
        /\ metrics.total_requests = 0 =>
                metrics'.requests_per_second.num = 0]_vars

\* outcomes recorded and finalized with a sub-second, non-zero duration
C18_Witness ==
    /\ finalize_calls >= 1
    /\ calls >= 1
    /\ metrics.total_requests >= 1
    /\ metrics.total_duration = 3 * QuarterSecNs
    /\ metrics.requests_per_second.num > 0

-----------------------------------------------------------------------------
(* Properties of the response-time queries *)

\* C19: while the histogram holds no sample, min, max, mean, median, p95 and
\* p99 are all the zero duration, whatever total_requests is.
C19_EmptyHistogramZero ==
    HistLen(metrics.response_times) = 0 =>
        /\ min_response_time(metrics) = 0
        /\ max_response_time(metrics) = 0
        /\ mean_response_time(metrics) = 0
        /\ median_response_time(metrics) = 0
        /\ p95_response_time(metrics) = 0
        /\ p99_response_time(metrics) = 0

\* outcomes recorded, none of them with a recordable elapsed time
C19_Witness ==
    /\ metrics.total_requests >= 2
    /\ metrics.successful_requests >= 1
    /\ metrics.failed_requests >= 1
    /\ HistLen(metrics.response_times) = 0

\* C20: with at least one sample in the histogram,
\* min <= median <= p95 <= p99 <= max.
C20_PercentilesOrdered ==
    HistLen(metrics.response_times) >= 1 =>
        /\ min_response_time(metrics) <= median_response_time(metrics)
        /\ median_response_time(metrics) <= p95_response_time(metrics)
        /\ p95_response_time(metrics) <= p99_response_time(metrics)
        /\ p99_response_time(metrics) <= max_response_time(metrics)

\* samples in buckets of different widths, median strictly between min and p95
C20_Witness ==
    /\ HistLen(metrics.response_times) >= 3
    /\ min_response_time(metrics) < median_response_time(metrics)
    /\ median_response_time(metrics) < p95_response_time(metrics)
    /\ p99_response_time(metrics) = max_response_time(metrics)
    /\ max_response_time(metrics) = from_micros(4103)

\* the histogram buckets that hold a sample, named by their lowest value
OccupiedBuckets(h) == {lowest_equivalent(v) : v \in BagToSet(h)}

\* C21: with at least one sample in the histogram, min <= mean <= max, the
\* mean being truncated to whole microseconds; with samples in more than one
\* bucket the untruncated mean lies strictly between min and max, so the
\* rounding of the floating-point sum cannot carry it outside.
C21_MeanBetweenMinAndMax ==
    LET h == metrics.response_times
    IN  HistLen(h) >= 1 =>
            /\ min_response_time(metrics) <= mean_response_time(metrics)
            /\ mean_response_time(metrics) <= max_response_time(metrics)
            /\ Cardinality(OccupiedBuckets(h)) >= 2 =>
                    /\ HistMin(h) * HistLen(h) < WeightedSum(h, BagToSet(h))
                    /\ WeightedSum(h, BagToSet(h)) < HistMax(h) * HistLen(h)

\* samples in buckets of different widths whose mean is not a whole number
\* of microseconds
C21_Witness ==
    LET h == metrics.response_times
    IN  /\ HistLen(h) >= 3
        /\ Cardinality(OccupiedBuckets(h)) >= 2
        /\ WeightedSum(h, BagToSet(h)) % HistLen(h) # 0
        /\ min_response_time(metrics) < mean_response_time(metrics)
        /\ mean_response_time(metrics) < max_response_time(metrics)

\* every sample in one bucket four microseconds wide
C21_WitnessOneBucket ==
    LET h == metrics.response_times
    IN  /\ HistLen(h) >= 2
        /\ OccupiedBuckets(h) = {4100}
        /\ min_response_time(metrics) = from_micros(4100)
        /\ mean_response_time(metrics) = from_micros(4102)
        /\ max_response_time(metrics) = from_micros(4103)

-----------------------------------------------------------------------------
(* Properties of the histogram's intake *)

\* C22: in every record_request call total_requests grows by one; an elapsed
\* time of at least 1 microsecond adds exactly one sample to the histogram,
\* a shorter one adds none.
C22_SampleRecordedFromOneMicro ==
    [][IsRecordStep =>
        LET d == RecordedTracker.duration
            len == HistLen(metrics.response_times)
            len_after == HistLen(metrics'.response_times)
        IN  /\ metrics'.total_requests = metrics.total_requests + 1
            /\ (IsSome(d) /\ as_micros(Unwrap(d)) >= 1) => len_after = len + 1
            /\ (IsSome(d) /\ as_micros(Unwrap(d)) < 1) => len_after = len
      ]_vars

-----------------------------------------------------------------------------
(* Properties of LoadTestConfig::new *)

IsPositive(d) == d.secs > 0 \/ d.nanos > 0

\* the RunSpec invariants: URL valid, N >= 1, 1 <= C <= N, timeout > 0
RunSpecValid(a) ==
    /\ UrlParse(a.url).ok
    /\ a.requests >= 1
    /\ 1 <= a.concurrency
    /\ a.concurrency <= a.requests
    /\ IsPositive(a.timeout)

\* C24: LoadTestConfig::new returns Ok exactly for the arguments that satisfy
\* the RunSpec invariants, any positive timeout (such as 100 ms) included.
C24_OkExactlyForValidRunSpec ==
    IsSome(config_result) =>
        (Unwrap(config_result).ok <=> RunSpecValid(Unwrap(config_args)))

-----------------------------------------------------------------------------
(* Properties of the recorded elapsed time *)

\* what the histogram holds after a request with that elapsed time is recorded
WithSample(m, elapsed) ==
    RecordDuration(m, [duration |-> Some(elapsed)]).response_times

\* C25: the elapsed time recorded for a request is the time from its issuance
\* until send_request returned; time the task spends afterwards, waiting to
\* be polled or for the mutex, is not part of it.
C25_ElapsedUntilExecutorReturned ==
    [][\A i \in Indices :
        (pc[i] = "locked" /\ pc'[i] = "recorded")
        => metrics'.response_times
            = WithSample(metrics, from_nanos(returned_at[i] - start_time[i]))
      ]_vars

-----------------------------------------------------------------------------
(* Properties of the aggregate's life cycle *)

\* C26: after the first finalize on a TestMetrics no later operation,
\* record_request or another finalize, changes any of its fields.
C26_ReadOnlyAfterFinalize ==
    [][finalize_calls >= 1 => metrics' = metrics]_vars

\* C27: every run() call starts from a fresh aggregate with all counters
\* zero, an aggregate's counters move only when a task of its own call
\* records, and every returned aggregate has total_requests equal to the
\* num_requests of its call, for calls in sequence or overlapping.
C27_OneFreshAggregatePerRun ==
    /\ [](\A r \in DOMAIN runs :
            /\ runs[r].metrics.total_requests = runs[r].recorded
            /\ runs[r].returned => runs[r].metrics.total_requests = runs[r].n)
    /\ [][/\ \A r \in DOMAIN runs' \ DOMAIN runs :
                runs'[r].metrics = TestMetricsNew
          /\ \A r \in DOMAIN runs :
                runs'[r].metrics.total_requests
                        # runs[r].metrics.total_requests
                    => runs'[r].recorded = runs[r].recorded + 1
         ]_vars

\* the second call was made, ran and returned with its own count while the
\* first call, made before it, was part-way
C27_Witness ==
    /\ Len(runs) = 2
    /\ runs[1].n = 2
    /\ runs[1].recorded = 1
    /\ ~runs[1].returned
    /\ runs[1].metrics.failed_requests = 0
    /\ runs[2].n = 1
    /\ runs[2].returned
    /\ runs[2].metrics.total_requests = 1
    /\ runs[2].metrics.failed_requests = 1

-----------------------------------------------------------------------------
(* Properties of the error statistics *)

\* C28: error_stats(), and with it the report's error_stats, is None exactly
\* when failed_requests = 0; when present it carries error_counts and
\* error_messages.
C28_ErrorStatsIffFailures ==
    /\ IsNone(error_stats(metrics)) <=> (metrics.failed_requests = 0)
    /\ IsNone(ReportErrorStats(metrics)) <=> (metrics.failed_requests = 0)
    /\ metrics.failed_requests > 0 =>
            /\ Unwrap(error_stats(metrics))
                    = <<metrics.error_counts, metrics.error_messages>>
            /\ Unwrap(ReportErrorStats(metrics)).error_counts
                    = metrics.error_counts

\* every recorded request answered 200: no error-stats block
C28_Witness ==
    /\ calls = MaxCalls
    /\ metrics.successful_requests = calls
    /\ metrics.failed_requests = 0
    /\ error_stats(metrics) = None
    /\ ReportErrorStats(metrics) = None

\* C29: error_messages holds one entry per failure, and every record_request
\* or finalize keeps the stored messages as a prefix of the new list, a
\* failure adding exactly one entry at the end and a success none.
C29_ErrorMessagesAppendOnly ==
    /\ [](Len(metrics.error_messages) = metrics.failed_requests)
    /\ [][/\ Len(metrics'.error_messages) >= Len(metrics.error_messages)
          /\ SubSeq(metrics'.error_messages, 1, Len(metrics.error_messages))
                = metrics.error_messages
          /\ Len(metrics'.error_messages) - Len(metrics.error_messages)
                = metrics'.failed_requests - metrics.failed_requests
          /\ IsRecordStep =>
                Len(metrics'.error_messages) - Len(metrics.error_messages)
                    = (IF /\ StatusOnly(RecordedTracker)
                          /\ is_success(Unwrap(RecordedTracker.status))
                       THEN 0 ELSE 1)
         ]_vars

\* three failures of different kinds, their messages in record order, with a
\* finalize in between
C29_Witness ==
    /\ calls = 3
    /\ finalize_calls >= 1
    /\ metrics.failed_requests = 3
    /\ metrics.error_messages[1] = "Too Many Requests"
    /\ metrics.error_messages[2] = "Unknown Error"
    /\ metrics.error_messages[3] # metrics.error_messages[1]
    /\ metrics.error_messages[3] # metrics.error_messages[2]

-----------------------------------------------------------------------------
(* Properties of the counters over time *)

\* C30: in every step of a run total_requests, successful_requests,
\* failed_requests and every error_counts entry stay or grow; no entry of
\* error_counts disappears.
C30_CountersNeverDecrease ==
    [][/\ metrics'.total_requests >= metrics.total_requests
       /\ metrics'.successful_requests >= metrics.successful_requests
       /\ metrics'.failed_requests >= metrics.failed_requests
       /\ \A l \in DOMAIN metrics.error_counts :
            /\ l \in DOMAIN metrics'.error_counts
            /\ metrics'.error_counts[l] >= metrics.error_counts[l]
      ]_vars

\* a finalized run in which every counter has grown and one error kind was
\* counted twice
C30_Witness ==
    /\ run_pc = "done"
    /\ metrics.total_requests = 3
    /\ metrics.successful_requests = 1
    /\ metrics.failed_requests = 2
    /\ metrics.error_counts = [l \in {"HTTP 404"} |-> 2]

-----------------------------------------------------------------------------
(* Properties of the critical section *)

\* the steps a request future takes between metrics.lock().await and the end
\* of its block: record_request, pb.inc, drop of the guard
CriticalSteps ==
    {<<"locked", "recorded">>, <<"recorded", "notified">>,
     <<"notified", "done">>}

\* C32: the critical section never suspends: the task that holds the
\* aggregator mutex has its Executor answer already and is never waiting on
\* send_request, and from acquiring the mutex to releasing it the holder does
\* only the record step, the progress notification and the release; it calls
\* the Executor no more.
C32_CriticalSectionNeverSuspends ==
    /\ [](\A i \in Indices :
            lock = Some(i) => /\ pc[i] # "sending"
                              /\ IsSome(result[i])
                              /\ returned_at[i] >= start_time[i])
    /\ [][\A i \in Indices :
            (lock = Some(i) /\ pc'[i] # pc[i]) =>
                /\ <<pc[i], pc'[i]>> \in CriticalSteps
                /\ send_calls'[i] = send_calls[i]
                /\ (lock' = None) <=> (pc'[i] = "done")
         ]_vars

\* a task holds the mutex after its record step and progress notification
\* while another request is still waiting on the Executor
C32_Witness ==
    \E i, j \in Indices :
        /\ lock = Some(i)
        /\ pc[i] = "notified"
        /\ record_calls[i] = 1
        /\ pc[j] = "sending"

-----------------------------------------------------------------------------
(* Runs against an Executor that answers as late as the run allows: a      *)
(* send_request call returns only while as many requests are outstanding   *)
(* as the ceiling and the requests left permit.  Every such run is a run   *)
(* of Spec.                                                                *)

Min(a, b) == IF a <= b THEN a ELSE b

\* requests whose send_request call is awaited
Sending == {i \in Indices : pc[i] = "sending"}

\* requests whose future has not finished
Unfinished == {i \in Indices : pc[i] # "done"}

SlowSendReturn(i, r) ==
    /\ Cardinality(Sending) = Min(concurrency, Cardinality(Unfinished))
    /\ SendReturn(i, r)

SlowNext ==
    \/ RunStart
    \/ Admit
    \/ \E i \in Indices : TaskStart(i)
    \/ \E i \in Indices, r \in ExecutorResults : SlowSendReturn(i, r)
    \/ \E i \in Indices : LockAcquire(i)
    \/ \E i \in Indices, e \in ElapsedNs : TaskRecord(i, from_nanos(e))
    \/ \E i \in Indices : TaskProgress(i)
    \/ \E i \in Indices : TaskFinish(i)
    \/ StreamDone
    \/ \E d \in RunDurationsNs : RunFinalize(d)

SlowExecutorSpec == Init /\ [][SlowNext]_vars /\ WF_vars(SlowNext)

\* C33: the ceiling is attainable.  While the stream is polled and fewer
\* futures are in the queue than min(concurrency, requests not finished), the
\* next future can be pushed, and a pushed future can call the Executor at
\* once; for every num_requests >= concurrency >= 1, when the Executor
\* answers late, the run comes to a state with exactly `concurrency` requests
\* awaiting the Executor, and it still completes.
C33_CeilingAttainable ==
    /\ []((/\ run_pc = "streaming"
           /\ Cardinality(in_progress_queue)
                < Min(concurrency, Cardinality(Unfinished)))
            => ENABLED Admit)
    /\ [](\A i \in Indices : pc[i] = "created" => ENABLED TaskStart(i))
    /\ <>(Cardinality(Sending) = concurrency)
    /\ <>(run_pc = "done")

\* three requests, ceiling three, all awaiting the Executor together
C33_Witness ==
    /\ num_requests = 3
    /\ concurrency = 3
    /\ Cardinality(Sending) = 3
    /\ \A i \in Indices : send_calls[i] = 1 /\ result[i] = None

-----------------------------------------------------------------------------
(* Properties of finalize called early *)

\* C34: finalize may be called at any point, with nothing recorded or with
\* a tracker still held by the caller: it returns Ok and changes nothing
\* but total_duration and requests_per_second; the three counters, the
\* histogram, error_counts and error_messages stay as they were.
C34_FinalizeAnytimeKeepsRecords ==
    [][IsFinalizeStep =>
        /\ \A d \in FinalizeDurationsNs : FinalizeReturn(metrics, d).ok
        /\ metrics'.total_requests = metrics.total_requests
        /\ metrics'.successful_requests = metrics.successful_requests
        /\ metrics'.failed_requests = metrics.failed_requests
        /\ metrics'.response_times = metrics.response_times
        /\ metrics'.error_counts = metrics.error_counts
        /\ metrics'.error_messages = metrics.error_messages
      ]_vars

\* finalize was called after one failure was recorded and while a second,
\* completed tracker had not been recorded yet: the snapshot has the one
\* outcome, its sample and its error entry
C34_Witness ==
    /\ finalize_calls = 1
    /\ calls = 1
    /\ IsSome(tracker)
    /\ terminal_calls = 1
    /\ metrics.total_duration = 750000000
    /\ metrics.total_requests = 1
    /\ metrics.failed_requests = 1
    /\ HistLen(metrics.response_times) = 1
    /\ Len(metrics.error_messages) = 1

-----------------------------------------------------------------------------
(* Properties of recording a success *)

\* C35: recording a tracker that holds a 2xx status and no error adds one to
\* total_requests and one to successful_requests and leaves failed_requests,
\* error_counts and error_messages as they were.
C35_SuccessCountsOnce ==
    [][(/\ IsRecordStep
        /\ StatusOnly(RecordedTracker)
        /\ is_success(Unwrap(RecordedTracker.status)))
        =>
        /\ metrics'.total_requests = metrics.total_requests + 1
        /\ metrics'.successful_requests = metrics.successful_requests + 1
        /\ metrics'.failed_requests = metrics.failed_requests
        /\ metrics'.error_counts = metrics.error_counts
        /\ metrics'.error_messages = metrics.error_messages
      ]_vars

\* a 200 recorded after a failure: one success, and the failure's entry and
\* message still alone
C35_Witness ==
    /\ calls = 2
    /\ tracker = None
    /\ metrics.total_requests = 2
    /\ metrics.successful_requests = 1
    /\ metrics.failed_requests = 1
    /\ metrics.error_counts = [l \in {"HTTP 429"} |-> 1]
    /\ metrics.error_messages = <<"Too Many Requests">>

-----------------------------------------------------------------------------
(* Properties relating the histogram to the counters *)

\* C40: the histogram never holds more samples than total_requests, and
\* recording a tracker on which neither complete nor record_error was called
\* (its duration is None) adds one to total_requests and no sample.
C40_SamplesAtMostTotal ==
    /\ [](HistLen(metrics.response_times) <= metrics.total_requests)
    /\ [][(IsRecordStep /\ IsNone(RecordedTracker.duration)) =>
            /\ terminal_calls = 0
            /\ metrics'.total_requests = metrics.total_requests + 1
            /\ metrics'.response_times = metrics.response_times
         ]_vars

\* a fresh tracker recorded after a completed one: two outcomes, one sample
C40_Witness ==
    /\ calls = 2
    /\ tracker = None
    /\ terminal_calls = 0
    /\ metrics.total_requests = 2
    /\ HistLen(metrics.response_times) = 1
    /\ metrics.failed_requests >= 1

-----------------------------------------------------------------------------
(* Properties of the counts across schedules *)

\* the failures among the requests S, by what the Executor answered
FailedIn(S) == {i \in S : ~IsSuccess(i)}

\* the counts fixed by the Executor's answers to the requests S alone
CountsOf(S) ==
    [total_requests |-> Cardinality(S),
     successful_requests |-> Cardinality(S \ FailedIn(S)),
     failed_requests |-> Cardinality(FailedIn(S)),
     error_counts |->
        [l \in {ExpectedLabel(Unwrap(result[i])) : i \in FailedIn(S)} |->
            Cardinality({i \in FailedIn(S) :
                            ExpectedLabel(Unwrap(result[i])) = l})]]

\* C39: the counts do not depend on the schedule.  total_requests,
\* successful_requests, failed_requests and error_counts are determined by
\* which requests have been recorded and what the Executor answered to each,
\* so when the run returns they are determined by the answers to the
\* num_requests requests, whatever the interleaving and completion order.
C39_CountsIndependentOfSchedule ==
    /\ metrics.total_requests = CountsOf(Recorded).total_requests
    /\ metrics.successful_requests = CountsOf(Recorded).successful_requests
    /\ metrics.failed_requests = CountsOf(Recorded).failed_requests
    /\ metrics.error_counts = CountsOf(Recorded).error_counts
    /\ run_pc = "done" => Recorded = Indices

\* a finished run whose outcomes were recorded against the request order:
\* the transport error of request 2 before the 404 of request 0
C39_Witness ==
    /\ run_pc = "done"
    /\ num_requests = 3
    /\ result[0] = Some(OkResponse(404))
    /\ result[1] = Some(OkResponse(200))
    /\ result[2] = Some(ErrResponse(TimeoutError))
    /\ metrics.error_messages = <<ErrorToString(TimeoutError), "Not Found">>
    /\ metrics.error_counts
            = [l \in {"HTTP 404", UnknownError} |-> 1]

-----------------------------------------------------------------------------
(* Properties of the order of the checks in LoadTestConfig::new *)

\* the error kind a call returned, "" for Ok
KindOf(r) == IF r.ok THEN "" ELSE r.kind

\* C36: LoadTestConfig::new reports the first violated check in the order
\* URL, request count, concurrency (zero, then greater than the request
\* count), timeout.  An invalid URL gives InvalidUrl whatever the other
\* arguments; zero requests give InvalidRequests also when concurrency is
\* greater than requests; a zero timeout gives InvalidTimeout exactly when
\* URL, requests and concurrency are valid.
C36_FirstViolatedCheckReported ==
    IsSome(config_result) =>
        LET a == Unwrap(config_args)
            r == Unwrap(config_result)
            urlOk == UrlParse(a.url).ok
            countsOk == a.requests >= 1 /\ a.concurrency >= 1
                            /\ a.concurrency <= a.requests
        IN  /\ ~urlOk => KindOf(r) = "InvalidUrl"
            /\ (urlOk /\ a.requests = 0) => KindOf(r) = "InvalidRequests"
            /\ (urlOk /\ a.requests >= 1 /\ a.concurrency = 0) =>
                    /\ KindOf(r) = "InvalidConcurrency"
                    /\ r.message = "Concurrency must be greater than 0"
            /\ (urlOk /\ a.requests >= 1 /\ a.concurrency > a.requests) =>
                    /\ KindOf(r) = "InvalidConcurrency"
                    /\ r.message = "Concurrency cannot be greater than the number of requests"
            /\ (a.timeout = from_secs(0)) =>
                    ((KindOf(r) = "InvalidTimeout") <=> (urlOk /\ countsOk))

\* zero requests, concurrency above them and a zero timeout: the request
\* count is the check reported
C36_Witness ==
    /\ IsSome(config_result)
    /\ Unwrap(config_args).url = "http://example.com"
    /\ Unwrap(config_args).requests = 0
    /\ Unwrap(config_args).concurrency = 2
    /\ Unwrap(config_args).timeout = from_secs(0)
    /\ KindOf(Unwrap(config_result)) = "InvalidRequests"

-----------------------------------------------------------------------------
(* Properties of the front ends *)

\* the RunSpec an invocation asks for: the CLI gives the timeout in seconds,
\* the API in milliseconds with 5000 when absent
SpecOf(c) ==
    [url |-> c.request.url, requests |-> c.request.requests,
     concurrency |-> c.request.concurrency,
     timeout |-> IF c.path = "cli" THEN from_secs(c.request.timeout)
                 ELSE from_millis(unwrap_or(c.request.timeout_ms, 5000))]

RunEntered(c) == IsSome(c.run)
ExecutorCalls(c) == IF IsSome(c.run) THEN Unwrap(c.run).issued ELSE 0

\* C31: a specification error (invalid URL, zero requests, zero concurrency,
\* concurrency above the request count, timeout not positive) is rejected
\* before any request is issued, from the CLI and from the API alike:
\* engine.run is never entered and the Executor never called for it, and the
\* invocation ends without a report (exit code 1, a 400 response, or the
\* handler's panic).
C31_SpecErrorNeverRuns ==
    \A h \in DOMAIN callers :
        ~RunSpecValid(SpecOf(callers[h])) =>
            /\ ~RunEntered(callers[h])
            /\ ExecutorCalls(callers[h]) = 0
            /\ callers[h].pc \in {"exited", "responded", "panicked"}
            /\ callers[h].response \in {None, Some(1), Some(400)}
            /\ callers[h].pc = "panicked" <=> callers[h].response = None

\* a command line with a zero timeout has exited with an error and a POST
\* with concurrency above its request count has ended in the panic
C31_Witness ==
    \E h, k \in DOMAIN callers :
        /\ callers[h].path = "cli"
        /\ callers[h].request.timeout = 0
        /\ callers[h].response = Some(1)
        /\ callers[k].path = "api"
        /\ callers[k].request.concurrency > callers[k].request.requests
        /\ callers[k].request.requests >= 1
        /\ callers[k].pc = "panicked"

\* the characters run_load_test accepts in a header name
NameChars ==
    CharsOf("abcdefghijklmnopqrstuvwxyzABCDEFGHIJKLMNOPQRSTUVWXYZ0123456789-_")

\* C37: run_load_test answers 400 Bad Request and starts no engine run
\* whenever the URL of the request does not parse, its method is none of GET,
\* POST, PUT, DELETE, PATCH in any letter case, or a header name has a
\* character other than ASCII letters, digits, '-' and '_'.
C37_BadRequestNeverRuns ==
    \A h \in DOMAIN callers :
        LET req == callers[h].request
        IN  (/\ callers[h].path = "api"
             /\ \/ ~UrlParse(req.url).ok
                \/ to_uppercase(req.method) \notin HttpMethods
                \/ /\ IsSome(req.headers)
                   /\ \E key \in Unwrap(req.headers) :
                        ~(CharsOf(key) \subseteq NameChars))
            => /\ callers[h].response = Some(400)
               /\ callers[h].pc = "responded"
               /\ ~RunEntered(callers[h])

\* two POSTs answered 400: one for its method, one for a header name; past
\* these checks the first would have failed on its timeout and the second on
\* its concurrency
C37_Witness ==
    \E h, k \in DOMAIN callers :
        /\ callers[h].request.method = "INVALID"
        /\ callers[h].path = "api"
        /\ callers[h].response = Some(400)
        /\ callers[k].path = "api"
        /\ callers[k].request.headers = Some({"Invalid@Header"})
        /\ callers[k].response = Some(400)

\* handlers whose engine.run call has not returned
ActiveRuns ==
    {h \in DOMAIN callers :
        callers[h].path = "api" /\ callers[h].pc = "running"}

\* requests outstanding from runs started through the AppState
RECURSIVE ApiInFlight(_)
ApiInFlight(k) ==
    IF k = 0 THEN 0
    ELSE ApiInFlight(k - 1)
            + (IF callers[k].path = "api" /\ IsSome(callers[k].run)
                  /\ callers[k].pc = "running"
               THEN Unwrap(callers[k].run).in_flight ELSE 0)

\* C38: load tests started through one AppState are serialized.  A handler
\* holds the engine mutex from before its engine.run call until after the
\* call has returned, so at most one run is active, and the requests
\* outstanding from all handlers together are those of that run, at most its
\* concurrency.
C38_ApiRunsSerialized ==
    /\ Cardinality(ActiveRuns) <= 1
    /\ \A h \in DOMAIN callers :
          (callers[h].path = "api" /\ callers[h].pc \in {"running", "reporting"})
                <=> (engine = Some(h))
    /\ \A h \in ActiveRuns :
          ApiInFlight(Len(callers)) <= Unwrap(callers[h].config).concurrency
    /\ (ActiveRuns = {}) => (ApiInFlight(Len(callers)) = 0)

\* one handler's run has as many requests outstanding as its concurrency
\* while a second handler with a valid request waits for the engine mutex
C38_Witness ==
    \E h, k \in DOMAIN callers :
        /\ engine = Some(h)
        /\ callers[h].pc = "running"
        /\ Unwrap(callers[h].run).in_flight = 2
        /\ Unwrap(callers[h].config).concurrency = 2
        /\ callers[k].path = "api"
        /\ callers[k].pc = "configured"

====
